---- MODULE Spec2Model ----
(***************************************************************************)
(* A model of gin-config's configuration resolution core: the SelectorMap  *)
(* (gin/selector_map.py), the thread-local scope stack, the binding store  *)
(* with its lock flag, and the parameter injection done by gin_wrapper     *)
(* (gin/config.py).                                                        *)
(*                                                                         *)
(* Python strings are modelled as sequences of one-character strings, so   *)
(* that split, join and the selector regular expression are computed and   *)
(* not assumed: 'a.b' is <<"a", ".", "b">> and '' is <<>>.                 *)
(***************************************************************************)
EXTENDS Integers, Sequences, FiniteSets, TLC

VARIABLES
  sm,             \* a SelectorMap instance: [tree |-> ..., map |-> ...]
  active_scopes,  \* _SCOPE_MANAGER._active_scopes of each thread's storage
  frames,         \* per thread, the config_scope blocks it is inside of
  left,           \* the last config_scope block that was left, and how
  REGISTRY,       \* _REGISTRY: a SelectorMap of the registered configurables
  CONFIG,         \* _CONFIG: (scope, selector) -> parameter name -> value
  CONFIG_IS_LOCKED, \* _CONFIG_IS_LOCKED
  unlock_frames,  \* config_was_locked of each unlock_config block that is open
  invocations,    \* how many times the referenced configurable T has run
  FINALIZE_HOOKS, \* _FINALIZE_HOOKS: the hooks registered by the program
  OPERATIVE_CONFIG, \* _OPERATIVE_CONFIG: (scope, selector) -> name -> value
  SINGLETONS,     \* _SINGLETONS: key -> the object constructed for it
  pc,             \* per thread, the statement it is at in the function it
                  \* is running, and that function's local variables
  OPERATIVE_CONFIG_LOCK, \* _OPERATIVE_CONFIG_LOCK: TRUE while it is held
  last_op         \* the operation that made the last step, and its outcome

selVars == <<sm>>
threadVars == <<pc, OPERATIVE_CONFIG_LOCK>>
scopeVars == <<active_scopes, frames, left>>
tableVars == <<FINALIZE_HOOKS, OPERATIVE_CONFIG, SINGLETONS>>
configVars ==
  <<REGISTRY, CONFIG, CONFIG_IS_LOCKED, unlock_frames, invocations, tableVars>>
vars == <<sm, active_scopes, frames, left, REGISTRY, CONFIG, CONFIG_IS_LOCKED,
          unlock_frames, invocations, FINALIZE_HOOKS, OPERATIVE_CONFIG,
          SINGLETONS, pc, OPERATIVE_CONFIG_LOCK, last_op>>

-----------------------------------------------------------------------------
(* Strings                                                                 *)

\* Letters and digits available to the model's strings.
Letters == {"a", "b", "c", "d", "e", "f", "g", "h", "i", "k", "l", "m", "n", "o",
            "r", "s", "t", "u", "v", "T", "x", "y", "_"}
Digits  == {"0", "1", "2", "3", "4", "5", "6", "7", "8", "9"}

\* str(c): the one-character string c.
Str(c) == <<c>>

RECURSIVE Reverse(_)
\* seq[::-1] / reversed(seq)
Reverse(s) == IF s = <<>> THEN <<>> ELSE Append(Reverse(Tail(s)), Head(s))

RECURSIVE SplitFrom(_, _, _)
\* The parts of s after the part `cur` that is being read.
SplitFrom(s, sep, cur) ==
  IF s = <<>> THEN <<cur>>
  ELSE IF Head(s) = sep THEN <<cur>> \o SplitFrom(Tail(s), sep, <<>>)
  ELSE SplitFrom(Tail(s), sep, Append(cur, Head(s)))

\* s.split(sep) for a one-character separator: ''.split('.') is [''].
Split(s, sep) == SplitFrom(s, sep, <<>>)

RECURSIVE Join(_, _)
\* sep.join(parts): '/'.join([]) is ''.
Join(parts, sep) ==
  IF parts = <<>> THEN <<>>
  ELSE IF Len(parts) = 1 THEN parts[1]
  ELSE parts[1] \o <<sep>> \o Join(Tail(parts), sep)

\* IDENTIFIER_RE: ^[a-zA-Z_]\w*$
IdentifierRE(s) ==
  /\ s # <<>>
  /\ s[1] \in Letters
  /\ \A i \in 1..Len(s) : s[i] \in Letters \cup Digits

\* SELECTOR_RE: ^([a-zA-Z_]\w*\.)*[a-zA-Z_]\w*$
SelectorRE(s) ==
  LET parts == Split(s, ".")
  IN  \A i \in 1..Len(parts) : IdentifierRE(parts[i])

\* Whether sequence p is a prefix of sequence s.
IsPrefix(p, s) == Len(p) <= Len(s) /\ SubSeq(s, 1, Len(p)) = p

\* Whether sequence p is a suffix of sequence s.
IsSuffix(p, s) ==
  Len(p) <= Len(s) /\ SubSeq(s, Len(s) - Len(p) + 1, Len(s)) = p

\* dict: d with d[k] = v.
DictSet(d, k, v) == [x \in DOMAIN d \cup {k} |-> IF x = k THEN v ELSE d[x]]

\* dict: d without key k (d.pop(k, None)).
DictDel(d, k) == [x \in DOMAIN d \ {k} |-> d[x]]

\* {}
EmptyDict == [x \in {} |-> x]

\* s.rsplit(sep, 1): s split at the last occurrence of sep, if there is one.
RSplit1(s, sep) ==
  LET parts == Split(s, sep)
      n == Len(parts)
  IN  IF n = 1 THEN <<s>> ELSE <<Join(SubSeq(parts, 1, n - 1), sep), parts[n]>>

-----------------------------------------------------------------------------
(* Values, and the record of the last operation                            *)

\* A literal value.
Lit(n) == [kind |-> "lit", n |-> n, sel |-> <<>>, evaluate |-> FALSE]

\* REQUIRED = object(), the sentinel.
REQUIRED == [kind |-> "REQUIRED", n |-> 0, sel |-> <<>>, evaluate |-> FALSE]

\* ConfigurableReference(scoped_selector, evaluate): @sel or @sel().
Ref(sel, evaluate) ==
  [kind |-> "ref", n |-> 0, sel |-> sel, evaluate |-> evaluate]

\* The n-th object that a run of a configurable produced.
Obj(n) == [kind |-> "obj", n |-> n, sel |-> <<>>, evaluate |-> FALSE]

\* The wrapper (callable) of the configurable registered under sel.
Wrapper(sel) == [kind |-> "fn", n |-> 0, sel |-> sel, evaluate |-> FALSE]

\* skip_unknown of parse_config: a bool, or a list of selectors.
SkipBool(b) == [kind |-> "bool", b |-> b, names |-> {}]
SkipList(names) == [kind |-> "list", b |-> FALSE, names |-> names]

\* The step was made by an operation of which nothing is recorded.
NoOp ==
  [op |-> "none", status |-> "ok", locked |-> FALSE, saved |-> FALSE,
   scope |-> <<>>, args |-> <<>>, kwargs |-> <<>>, called |-> FALSE,
   received |-> EmptyDict, missing |-> <<>>, invoked |-> 0,
   key |-> <<>>, value |-> 0,
   statements |-> <<>>, skip_unknown |-> SkipBool(FALSE),
   text |-> <<>>, before |-> EmptyDict, selector |-> <<>>]

\* The step was made by operation op, which returned ("ok") or raised, and
\* which found the lock flag to be `locked`.
Op(op, status, locked) ==
  [NoOp EXCEPT !.op = op, !.status = status, !.locked = locked]

-----------------------------------------------------------------------------
(* SelectorMap (gin/selector_map.py)                                       *)
(*                                                                         *)
(* _selector_tree, a dict of dicts keyed by selector components from the   *)
(* innermost one, is the set `nodes` of the paths that exist in it (the    *)
(* root is <<>>) and `term`, which maps a path to the value stored under   *)
(* its '$' key.  _selector_map is `map`.                                   *)

\* SelectorMap.__init__
NewSelectorMap ==
  [tree |-> [nodes |-> {<<>>}, term |-> EmptyDict], map |-> EmptyDict]

\* The components of a selector, innermost first.
TreePath(selector) == Reverse(Split(selector, "."))

\* SelectorMap.clear
Clear(m) ==
  [tree |-> [nodes |-> {<<>>}, term |-> EmptyDict], map |-> EmptyDict]

\* __setitem__ that leaves the tree alone when the selector is stored already.
SetItemOnce(m, complete_selector, value) ==
  [tree |-> [nodes |-> m.tree.nodes \cup
                       {SubSeq(TreePath(complete_selector), 1, k) :
                          k \in 0..Len(TreePath(complete_selector))},
             term  |-> IF m.map = EmptyDict
                       THEN DictSet(EmptyDict, TreePath(complete_selector),
                                    complete_selector)
                       ELSE m.tree.term],
   map  |-> DictSet(m.map, complete_selector, value)]

\* SelectorMap.__setitem__ for a selector that matches SELECTOR_RE.
SetItem(m, complete_selector, value) ==
  LET path == TreePath(complete_selector)
  IN  [tree |-> [nodes |-> m.tree.nodes \cup
                           {SubSeq(path, 1, k) : k \in 0..Len(path)},
                 term  |-> DictSet(m.tree.term, path, complete_selector)],
       map  |-> DictSet(m.map, complete_selector, value)]

\* matching_selectors without its first two lines: an exact match does not
\* end the search.
MatchingSelectorsNoExact(m, partial_selector) ==
  LET path == TreePath(partial_selector)
  IN  IF \E k \in 1..Len(path) : SubSeq(path, 1, k) \notin m.tree.nodes
      THEN {}
      ELSE {m.tree.term[n] : n \in {t \in DOMAIN m.tree.term : IsPrefix(path, t)}}

\* SelectorMap.matching_selectors, as the set of the selectors returned.
MatchingSelectors(m, partial_selector) ==
  IF partial_selector \in DOMAIN m.map THEN {partial_selector}
  ELSE LET path == TreePath(partial_selector)
       IN  IF \E k \in 1..Len(path) : SubSeq(path, 1, k) \notin m.tree.nodes
           THEN {}
           ELSE {m.tree.term[n] : n \in {t \in DOMAIN m.tree.term : IsPrefix(path, t)}}

\* get_match once matching_selectors returned `matching_selectors`.
GetMatchAmong(m, matching_selectors, default) ==
  IF matching_selectors = {}
  THEN [status |-> "ok", value |-> default, matches |-> {}]
  ELSE IF Cardinality(matching_selectors) > 1
  THEN [status |-> "KeyError", value |-> default,
        matches |-> matching_selectors]
  ELSE [status |-> "ok",
        value |-> m.map[CHOOSE c \in matching_selectors : TRUE],
        matches |-> {}]

\* get_match that takes the first of several matches and does not raise.
GetMatchFirst(m, partial_selector, default) ==
  IF MatchingSelectors(m, partial_selector) = {}
  THEN [status |-> "ok", value |-> default, matches |-> {}]
  ELSE [status |-> "ok",
        value |-> m.map[CHOOSE c \in MatchingSelectors(m, partial_selector) : TRUE],
        matches |-> {}]

\* SelectorMap.get_match(partial_selector, default): the value returned, or
\* the KeyError and the selectors that its message lists.
GetMatchDefault(m, partial_selector, default) ==
  GetMatchAmong(m, MatchingSelectors(m, partial_selector), default)

\* len(node) for the node at `path` of _selector_tree: its child nodes, and
\* its '$' key if a selector ends there.
NodeLen(m, path) ==
  Cardinality({n \in m.tree.nodes : Len(n) = Len(path) + 1 /\ IsPrefix(path, n)})
  + (IF path \in DOMAIN m.tree.term THEN 1 ELSE 0)

\* `start` in minimal_selector: None, or an index.
NoStart == [is_none |-> TRUE, v |-> 0]
StartAt(v) == [is_none |-> FALSE, v |-> v]

RECURSIVE MinimalStartAfterDescent(_, _, _, _)
\* The loop of minimal_selector if it looked at len(node) after
\* node = node[component] and not before.
MinimalStartAfterDescent(m, path, i, start) ==
  IF i >= Len(path) THEN start
  ELSE MinimalStartAfterDescent(m, path, i + 1,
         IF NodeLen(m, SubSeq(path, 1, i + 1)) = 1
         THEN (IF start.is_none THEN StartAt(0 - i) ELSE start)
         ELSE NoStart)

RECURSIVE MinimalStart(_, _, _, _)
\* The loop of minimal_selector from its i-th iteration on: `start` when the
\* loop ends.  In iteration i, node is the node at path[:i].
MinimalStart(m, path, i, start) ==
  IF i >= Len(path) THEN start
  ELSE MinimalStart(m, path, i + 1,
         IF NodeLen(m, SubSeq(path, 1, i)) = 1
         THEN (IF start.is_none THEN StartAt(0 - i) ELSE start)
         ELSE NoStart)

\* seq[start:], for start None, zero or negative.
SliceFrom(seq, start) ==
  IF start.is_none \/ start.v = 0 \/ Len(seq) + start.v <= 0 THEN seq
  ELSE SubSeq(seq, Len(seq) + start.v + 1, Len(seq))

\* SelectorMap.minimal_selector
MinimalSelector(m, complete_selector) ==
  IF complete_selector \notin DOMAIN m.map
  THEN [status |-> "KeyError", value |-> <<>>]
  ELSE IF NodeLen(m, TreePath(complete_selector)) > 1
  THEN [status |-> "ok", value |-> complete_selector]
  ELSE [status |-> "ok",
        value |-> Join(SliceFrom(Split(complete_selector, "."),
                                 MinimalStart(m, TreePath(complete_selector),
                                              0, NoStart)), ".")]

RECURSIVE PruneKeepingNodes(_, _, _, _)
\* The removal if it left the emptied chain nodes in the tree.
PruneKeepingNodes(nodes, term, path, k) == nodes

RECURSIVE Prune(_, _, _, _)
\* The removal's pruning, from the node at path[:k] towards the root: a node
\* that is left with no child and no terminal marker is deleted, and then
\* its parent is looked at; the root stays.
Prune(nodes, term, path, k) ==
  IF k = 0 THEN nodes
  ELSE IF NodeLen([tree |-> [nodes |-> nodes, term |-> term]],
                  SubSeq(path, 1, k)) > 0
  THEN nodes
  ELSE Prune(nodes \ {SubSeq(path, 1, k)}, term, path, k - 1)

\* SelectorMap.pop(complete_selector) for a stored selector: the value that
\* is returned and the map that is left.
Pop(m, complete_selector) ==
  [value |-> m.map[complete_selector],
   m |-> [tree |-> [nodes |-> Prune(m.tree.nodes,
                                    DictDel(m.tree.term, TreePath(complete_selector)),
                                    TreePath(complete_selector),
                                    Len(TreePath(complete_selector))),
                    term |-> DictDel(m.tree.term, TreePath(complete_selector))],
          map |-> DictDel(m.map, complete_selector)]]

\* len(selector_map): the entry count.
SelectorMapLen(m) == Cardinality(DOMAIN m.map)

\* _find_registered_methods: the method registered as old_selector under the
\* name `name` becomes selector.name, selector being that of its class.
RenameMethod(m, old_selector, selector, name) ==
  SetItem(Pop(m, old_selector).m, selector \o <<".">> \o name,
          m.map[old_selector])

-----------------------------------------------------------------------------
(* Inputs of the SelectorMap specification                                 *)

MaxComponents == 3
MaxEntries == 2

Components == {"a", "b"}

\* The sequences of 1..n components.
RECURSIVE ComponentSeqs(_)
ComponentSeqs(n) ==
  IF n = 0 THEN {<<>>}
  ELSE ComponentSeqs(n - 1) \cup
       {Append(s, Str(c)) : s \in ComponentSeqs(n - 1), c \in Components}

\* Valid selectors of up to MaxComponents components.
SelectorInputs == {Join(s, ".") : s \in ComponentSeqs(MaxComponents) \ {<<>>}}

\* Strings that are no selectors: '', 'a.', '.a', 'a..b', '4a'.
InvalidSelectorInputs ==
  {<<>>, <<"a", ".">>, <<".", "a">>, <<"a", ".", ".", "b">>, <<"4", "a">>}

MapValues == {1, 2}

InitSelectorMap == sm = NewSelectorMap

\* sm[complete_selector] = value
Insert(complete_selector, value) ==
  /\ complete_selector \in DOMAIN sm.map
       \/ Cardinality(DOMAIN sm.map) < MaxEntries
  /\ SelectorRE(complete_selector)
  /\ sm' = SetItem(sm, complete_selector, value)
  /\ last_op' = NoOp
  /\ UNCHANGED <<threadVars, scopeVars, configVars>>

\* sm[complete_selector] = value raising ValueError
InsertInvalid(complete_selector) ==
  /\ ~SelectorRE(complete_selector)
  /\ UNCHANGED vars

NextSelectorMap ==
  \/ \E s \in SelectorInputs \cup InvalidSelectorInputs, v \in MapValues :
       Insert(s, v)
  \/ \E s \in SelectorInputs \cup InvalidSelectorInputs : InsertInvalid(s)

\* The most entries that the map holds where entries are removed too.
MaxPopEntries == 3

\* a.a.b, b.a.b and a.a.a (as a.a.a.name, a.b.a.name and a.a.a.moose), and
\* a.b and b.
PopInputs ==
  {<<"a", ".", "a", ".", "b">>, <<"b", ".", "a", ".", "b">>,
   <<"a", ".", "a", ".", "a">>, <<"a", ".", "b">>, <<"b">>}

\* sm[complete_selector] = value, on a map from which entries are removed.
Store(complete_selector, value) ==
  /\ complete_selector \in DOMAIN sm.map
       \/ SelectorMapLen(sm) < MaxPopEntries
  /\ SelectorRE(complete_selector)
  /\ sm' = SetItem(sm, complete_selector, value)
  /\ last_op' = [NoOp EXCEPT !.op = "setitem", !.key = complete_selector,
                             !.value = value, !.before = sm.map]
  /\ UNCHANGED <<threadVars, scopeVars, configVars>>

\* sm.pop(complete_selector)
DoPop(complete_selector) ==
  /\ complete_selector \in DOMAIN sm.map
  /\ sm' = Pop(sm, complete_selector).m
  /\ last_op' = [NoOp EXCEPT !.op = "pop", !.key = complete_selector,
                             !.value = Pop(sm, complete_selector).value]
  /\ UNCHANGED <<threadVars, scopeVars, configVars>>

\* A class is registered as `selector` of which a method is registered as
\* old_selector.
DoRenameMethod(old_selector, selector) ==
  /\ old_selector \in DOMAIN sm.map
  /\ Len(Split(selector, ".")) + 1 <= MaxComponents
  /\ sm' = RenameMethod(sm, old_selector, selector,
                        Split(old_selector, ".")[Len(Split(old_selector, "."))])
  /\ last_op' = [NoOp EXCEPT !.op = "rename", !.key = old_selector,
                             !.value = sm.map[old_selector]]
  /\ UNCHANGED <<threadVars, scopeVars, configVars>>

\* sm.clear()
DoClear ==
  /\ sm' = Clear(sm)
  /\ last_op' = [NoOp EXCEPT !.op = "clear"]
  /\ UNCHANGED <<threadVars, scopeVars, configVars>>

NextSelectorClear ==
  \/ \E s \in PopInputs \cup InvalidSelectorInputs, v \in MapValues :
       Store(s, v)
  \/ \E s \in PopInputs \cup InvalidSelectorInputs : InsertInvalid(s)
  \/ DoClear

NextSelectorPop ==
  \/ \E s \in PopInputs, v \in MapValues : Store(s, v)
  \/ \E s \in PopInputs : DoPop(s)
  \/ \E s \in PopInputs : DoRenameMethod(s, <<"b", ".", "a">>)

-----------------------------------------------------------------------------
(* _ScopeManager and config_scope (gin/config.py)                          *)

Threads == {"t1", "t2"}
MainThread == "t1"

\* No thread is inside a function of the library.
Idle ==
  [at |-> "idle", key |-> <<>>, obj |-> <<>>, result |-> <<>>,
   in_table |-> TRUE, config_was_locked |-> <<>>]

InitThreads ==
  /\ pc = [t \in Threads |-> Idle]
  /\ OPERATIVE_CONFIG_LOCK = FALSE

\* The threading.local storage in which thread t finds _active_scopes, if all
\* threads shared one _ScopeManager.__dict__.
ScopeSlotShared(t) == MainThread

\* The storage in which thread t finds the attributes of _SCOPE_MANAGER:
\* _ScopeManager subclasses threading.local, so each thread has its own.
ScopeSlot(t) == t

\* A thread's storage before _maybe_init: it has no _active_scopes attribute.
NoActiveScopes == [has |-> FALSE, v |-> <<>>]

\* _ScopeManager._maybe_init
MaybeInit(store, t) ==
  IF store[ScopeSlot(t)].has THEN store
  ELSE [store EXCEPT ![ScopeSlot(t)] = [has |-> TRUE, v |-> << <<>> >>]]

\* _ScopeManager.active_scopes: the stack thread t sees.
ActiveScopes(store, t) == MaybeInit(store, t)[ScopeSlot(t)].v

\* _ScopeManager.current_scope
CurrentScope(store, t) ==
  LET stack == ActiveScopes(store, t) IN stack[Len(stack)]

\* _ScopeManager.enter_scope
EnterScope(store, t, scope) ==
  [MaybeInit(store, t) EXCEPT ![ScopeSlot(t)].v = Append(@, scope)]

\* _ScopeManager.exit_scope (list.pop of an empty list raises IndexError)
ExitScope(store, t) ==
  LET inited == MaybeInit(store, t)
      stack == inited[ScopeSlot(t)].v
  IN  IF stack = <<>> THEN inited
      ELSE [inited EXCEPT ![ScopeSlot(t)].v = SubSeq(stack, 1, Len(stack) - 1)]

\* The arguments given to config_scope.
StrArg(s)  == [kind |-> "str", str |-> s, list |-> <<>>, int |-> 0]
ListArg(l) == [kind |-> "list", str |-> <<>>, list |-> l, int |-> 0]
NoneArg    == [kind |-> "None", str |-> <<>>, list |-> <<>>, int |-> 0]
IntArg(n)  == [kind |-> "int", str |-> <<>>, list |-> <<>>, int |-> n]

\* config_scope that extends the current scope by a list as it does by a
\* string.
NewScopeExtending(store, t, arg) ==
  IF arg.kind = "list" THEN CurrentScope(store, t) \o arg.list
  ELSE IF arg.kind = "str" /\ arg.str # <<>>
       THEN CurrentScope(store, t) \o Split(arg.str, "/")
  ELSE <<>>

\* config_scope: new_scope
NewScope(store, t, arg) ==
  IF arg.kind = "list" THEN arg.list
  ELSE IF arg.kind = "str" /\ arg.str # <<>>
       THEN CurrentScope(store, t) \o Split(arg.str, "/")
  ELSE <<>>

\* config_scope: valid_value
ValidValue(arg) ==
  IF arg.kind = "list" \/ (arg.kind = "str" /\ arg.str # <<>>) THEN TRUE
  ELSE arg.kind = "None" \/ (arg.kind = "str" /\ arg.str = <<>>)

\* config_scope: all(map(config_parser.MODULE_RE.match, new_scope))
ScopesAreValid(new_scope) ==
  \A i \in 1..Len(new_scope) : SelectorRE(new_scope[i])

\* config_scope without try/finally: the scope is popped only when the body
\* returns.
ConfigScopeNoFinally(how, store, t) ==
  IF how = "return" THEN ExitScope(store, t) ELSE store

\* config_scope's finally clause, however the block is left.
ConfigScopeFinally(how, store, t) == ExitScope(store, t)

MaxScopeDepth == 2

InitScopes ==
  /\ active_scopes = [t \in Threads |-> NoActiveScopes]
  /\ frames = [t \in Threads |-> <<>>]
  /\ left = [thread |-> MainThread, how |-> "none",
             before |-> << <<>> >>, after |-> << <<>> >>]

\* with config_scope(arg): the block is entered.
ConfigScopeEnter(t, arg) ==
  LET new_scope == NewScope(active_scopes, t, arg)
  IN  /\ Len(frames[t]) < MaxScopeDepth
      /\ ValidValue(arg) /\ ScopesAreValid(new_scope)
      /\ active_scopes' = EnterScope(active_scopes, t, new_scope)
      /\ frames' = [frames EXCEPT ![t] =
           Append(@, [arg |-> arg, before |-> ActiveScopes(active_scopes, t)])]
      /\ last_op' = NoOp
      /\ UNCHANGED <<threadVars, left, selVars, configVars>>

\* with config_scope(arg): ValueError is raised on entry.
ConfigScopeEnterInvalid(t, arg) ==
  LET new_scope == NewScope(active_scopes, t, arg)
  IN  /\ ~(ValidValue(arg) /\ ScopesAreValid(new_scope))
      /\ active_scopes' = ConfigScopeFinally(
           "ValueError", EnterScope(active_scopes, t, new_scope), t)
      /\ left' = [thread |-> t, how |-> "ValueError",
                  before |-> ActiveScopes(active_scopes, t),
                  after |-> ActiveScopes(active_scopes', t)]
      /\ last_op' = NoOp
      /\ UNCHANGED <<threadVars, frames, selVars, configVars>>

\* The innermost config_scope block of thread t is left: its body returns or
\* raises.
ConfigScopeExit(t, how) ==
  /\ frames[t] # <<>>
  /\ active_scopes' = ConfigScopeFinally(how, active_scopes, t)
  /\ frames' = [frames EXCEPT ![t] = SubSeq(@, 1, Len(@) - 1)]
  /\ left' = [thread |-> t, how |-> how,
              before |-> frames[t][Len(frames[t])].before,
              after |-> ActiveScopes(active_scopes', t)]
  /\ last_op' = NoOp
  /\ UNCHANGED <<threadVars, selVars, configVars>>

\* 'a', 'a/b', '', None and the list ['b'], as a scoped reference passes it.
ValidScopeArgs ==
  {StrArg(<<"a">>), StrArg(<<"a", "/", "b">>), StrArg(<<>>), NoneArg,
   ListArg(<< <<"b">> >>)}

\* 4, 0, 'a//b', 'a/4', and the list [''].
InvalidScopeArgs ==
  {IntArg(4), IntArg(0), StrArg(<<"a", "/", "/", "b">>),
   StrArg(<<"a", "/", "4">>), ListArg(<< <<>> >>)}

\* The arguments of the interleaved threads.
ThreadScopeArgs == {StrArg(<<"a">>), NoneArg, ListArg(<< <<"b">> >>)}

NextScope ==
  \/ \E arg \in ValidScopeArgs \cup InvalidScopeArgs :
       ConfigScopeEnter(MainThread, arg)
  \/ \E arg \in ValidScopeArgs \cup InvalidScopeArgs :
       ConfigScopeEnterInvalid(MainThread, arg)
  \/ \E how \in {"return", "raise"} : ConfigScopeExit(MainThread, how)

NextScopeThreads ==
  \/ \E t \in Threads, arg \in ThreadScopeArgs \cup {IntArg(4)} :
       ConfigScopeEnter(t, arg)
  \/ \E t \in Threads, arg \in ThreadScopeArgs \cup {IntArg(4)} :
       ConfigScopeEnterInvalid(t, arg)
  \/ \E t \in Threads, how \in {"return", "raise"} : ConfigScopeExit(t, how)

-----------------------------------------------------------------------------
(* The registry of configurables (gin/config.py)                           *)

\* The callables of the program: module a defines f(x, y=gin.REQUIRED),
\* d(x, y=3), T(), l(x=0, y=0) that is registered with allowlist=['x'] and
\* n(x=0, y=0) that is registered with denylist=['x']; module b defines
\* g(x); gin itself defines macro(value), _retrieve_constant() and
\* singleton(constructor).
Signature(fn) ==
  CASE fn = "f" -> [args |-> <<Str("x"), Str("y")>>,
                    defaults |-> (Str("y") :> REQUIRED)]
    [] fn = "d" -> [args |-> <<Str("x"), Str("y")>>,
                    defaults |-> (Str("y") :> Lit(3))]
    [] fn \in {"l", "n"} ->
         [args |-> <<Str("x"), Str("y")>>,
          defaults |-> (Str("x") :> Lit(0)) @@ (Str("y") :> Lit(0))]
    [] fn = "g" -> [args |-> <<Str("x")>>, defaults |-> EmptyDict]
    [] fn = "macro" -> [args |-> << <<"v", "a", "l", "u", "e">> >>,
                        defaults |-> EmptyDict]
    [] fn = "singleton" ->
         [args |-> << <<"c", "o", "n", "s", "t", "r", "u", "c", "t", "o", "r">> >>,
          defaults |-> EmptyDict]
    [] OTHER -> [args |-> <<>>, defaults |-> EmptyDict]

\* fn.__module__
FnModule(fn) ==
  CASE fn \in {"f", "T", "d", "l", "n"} -> Str("a")
    [] fn = "g" -> Str("b")
    [] OTHER -> <<"g", "i", "n">>

\* The allowlist and the denylist that the decorator of fn is given: none is
\* the empty set.
Allowlist(fn) == IF fn = "l" THEN {Str("x")} ELSE {}
Denylist(fn) == IF fn = "n" THEN {Str("x")} ELSE {}

\* Configurable(wrapped, selector, allowlist, denylist), and no Configurable.
Configurable(fn, selector) ==
  [wrapped |-> fn, selector |-> selector, allowlist |-> Allowlist(fn),
   denylist |-> Denylist(fn)]
NoConfigurable == Configurable("", <<>>)

\* The selectors under which the modules of the program and gin register.
Sel_f == <<"a", ".", "f">>
Sel_d == <<"a", ".", "d">>
Sel_T == <<"a", ".", "T">>
Sel_l == <<"a", ".", "l">>
Sel_n == <<"a", ".", "n">>
Sel_macro == <<"g", "i", "n", ".", "m", "a", "c", "r", "o">>
Sel_constant == <<"g", "i", "n", ".", "c", "o", "n", "s", "t", "a", "n", "t">>
Sel_singleton ==
  <<"g", "i", "n", ".", "s", "i", "n", "g", "l", "e", "t", "o", "n">>

\* _REGISTRY once gin and module a are imported.
InitRegistry ==
  LET r1 == SetItem(NewSelectorMap, Sel_macro, Configurable("macro", Sel_macro))
      r2 == SetItem(r1, Sel_constant,
                    Configurable("_retrieve_constant", Sel_constant))
      r3 == SetItem(r2, Sel_singleton, Configurable("singleton", Sel_singleton))
      r4 == SetItem(r3, Sel_f, Configurable("f", Sel_f))
  IN  SetItem(r4, Sel_T, Configurable("T", Sel_T))

\* SelectorMap.get_match: the value of the one selector that matches, None
\* ("none") if there is no match, KeyError if there are several.
GetMatch(m, partial_selector) ==
  LET matching_selectors == MatchingSelectors(m, partial_selector)
  IN  IF matching_selectors = {}
      THEN [status |-> "none", value |-> NoConfigurable]
      ELSE IF Cardinality(matching_selectors) > 1
      THEN [status |-> "KeyError", value |-> NoConfigurable]
      ELSE [status |-> "ok",
            value |-> m.map[CHOOSE c \in matching_selectors : TRUE]]

\* An optional string argument: None or a string.
None == [is_none |-> TRUE, s |-> <<>>]
Some(s) == [is_none |-> FALSE, s |-> s]

\* _make_configurable once the flag is found clear.
MakeConfigurableChecked(reg, fn, name_arg, module_arg) ==
    LET name == IF name_arg.is_none THEN Str(fn) ELSE name_arg.s
        module == IF IdentifierRE(name) /\ module_arg.is_none
                  THEN Some(FnModule(fn)) ELSE module_arg
        selector == IF ~module.is_none /\ module.s # <<>>
                    THEN module.s \o <<".">> \o name ELSE name
    IN  IF ~IdentifierRE(name) /\ ~SelectorRE(name)
        THEN [status |-> "ValueError", registry |-> reg]
        ELSE IF ~module.is_none /\ ~SelectorRE(module.s)
        THEN [status |-> "ValueError", registry |-> reg]
        ELSE IF selector \in DOMAIN reg.map /\ reg.map[selector].wrapped # fn
        THEN [status |-> "ValueError", registry |-> reg]
        ELSE [status |-> "ok",
              registry |-> SetItem(reg, selector, Configurable(fn, selector))]

\* _make_configurable without its first three lines: the flag is not looked
\* at.
MakeConfigurableUnlocked(reg, locked, fn, name_arg, module_arg) ==
  MakeConfigurableChecked(reg, fn, name_arg, module_arg)

\* _make_configurable: the status and the registry it leaves.
MakeConfigurable(reg, locked, fn, name_arg, module_arg) ==
  IF locked THEN [status |-> "RuntimeError", registry |-> reg]
  ELSE MakeConfigurableChecked(reg, fn, name_arg, module_arg)

-----------------------------------------------------------------------------
(* Binding keys and the binding store (gin/config.py)                      *)

\* A binding key given as a string 'scope/selector.arg_name' or as a tuple.
KeyStr(s) ==
  [kind |-> "str", str |-> s, scope |-> <<>>, selector |-> <<>>,
   arg_name |-> <<>>]
KeyTuple(scope, selector, arg_name) ==
  [kind |-> "tuple", str |-> <<>>, scope |-> scope, selector |-> selector,
   arg_name |-> arg_name]

\* config_parser.parse_scoped_selector, for a string that is no macro.
ParseScopedSelector(scoped_selector) ==
  LET scope_selector_list == RSplit1(scoped_selector, "/")
      n == Len(scope_selector_list)
  IN  [scope |-> Join(SubSeq(scope_selector_list, 1, n - 1), ""),
       selector |-> scope_selector_list[n]]

\* config_parser.parse_binding_key
ParseBindingKey(binding_key) ==
  LET ss == ParseScopedSelector(binding_key)
      selector_arg_name_list == RSplit1(ss.selector, ".")
  IN  [scope |-> ss.scope,
       selector |-> selector_arg_name_list[1],
       arg_name |-> Join(Tail(selector_arg_name_list), "")]

\* _might_have_parameter, for callables without **kwargs or keyword-only
\* parameters.
MightHaveParameter(fn, arg_name) ==
  \E i \in 1..Len(Signature(fn).args) : Signature(fn).args[i] = arg_name

\* The (scope, selector, arg_name) a binding key stands for.
KeyParts(binding_key) ==
  IF binding_key.kind = "str" THEN ParseBindingKey(binding_key.str)
  ELSE [scope |-> binding_key.scope, selector |-> binding_key.selector,
        arg_name |-> binding_key.arg_name]

\* ParsedBindingKey(scope, given_selector, complete_selector, arg_name), with
\* the exception that parsing raised, if any.
ParsedBindingKey(status, k, c) ==
  [status |-> status, scope |-> k.scope, given_selector |-> k.selector,
   complete_selector |-> c.selector, arg_name |-> k.arg_name]

\* ParsedBindingKey.parse, once the key is split into k and the registry has
\* been asked for k.selector.
ParsedBindingKeyChecks(k, configurable_) ==
  ParsedBindingKey(
    IF configurable_.status = "KeyError" THEN "KeyError"
    ELSE IF configurable_.status = "none" THEN "ValueError"
    ELSE IF ~MightHaveParameter(configurable_.value.wrapped, k.arg_name)
    THEN "ValueError"
    ELSE IF /\ configurable_.value.allowlist # {}
            /\ k.arg_name \notin configurable_.value.allowlist
    THEN "ValueError"
    ELSE IF /\ configurable_.value.denylist # {}
            /\ k.arg_name \in configurable_.value.denylist
    THEN "ValueError"
    ELSE "ok",
    k, configurable_.value)

\* ParsedBindingKey.parse: the parsed key, or the exception raised.
ParsedBindingKeyParse(reg, binding_key) ==
  ParsedBindingKeyChecks(KeyParts(binding_key),
                         GetMatch(reg, KeyParts(binding_key).selector))

\* _CONFIG.get(config_key, {})
ConfigGet(cfg, config_key) ==
  IF config_key \in DOMAIN cfg THEN cfg[config_key] ELSE EmptyDict

\* _CONFIG.setdefault(config_key, {})[arg_name] = value
ConfigSet(cfg, config_key, arg_name, value) ==
  DictSet(cfg, config_key, DictSet(ConfigGet(cfg, config_key), arg_name, value))

\* bind_parameter that calls _CONFIG.setdefault before it learns that the
\* key is rejected.
BindParsedSetdefaultFirst(cfg, pbk, value) ==
  [status |-> pbk.status,
   config |-> IF pbk.status # "ok"
              THEN DictSet(cfg, <<pbk.scope, pbk.complete_selector>>,
                           ConfigGet(cfg, <<pbk.scope, pbk.complete_selector>>))
              ELSE ConfigSet(cfg, <<pbk.scope, pbk.complete_selector>>,
                             pbk.arg_name, value)]

\* bind_parameter once the flag is found clear and the key is parsed.
BindParsed(cfg, pbk, value) ==
  IF pbk.status # "ok" THEN [status |-> pbk.status, config |-> cfg]
  ELSE [status |-> "ok",
        config |-> ConfigSet(cfg, <<pbk.scope, pbk.complete_selector>>,
                             pbk.arg_name, value)]

\* bind_parameter without its first two lines: the flag is not looked at.
BindParameterUnlocked(cfg, reg, locked, binding_key, value) ==
  BindParsed(cfg, ParsedBindingKeyParse(reg, binding_key), value)

\* bind_parameter: the status and the store it leaves.
BindParameter(cfg, reg, locked, binding_key, value) ==
  IF locked THEN [status |-> "RuntimeError", config |-> cfg]
  ELSE BindParsed(cfg, ParsedBindingKeyParse(reg, binding_key), value)

\* A BindingStatement (scope, selector, arg_name, value) of the parser.
Statement(scope, selector, arg_name, value) ==
  [scope |-> scope, selector |-> selector, arg_name |-> arg_name,
   value |-> value]

\* The binding key parse_config gives bind_parameter for a statement: a
\* statement without arg_name defines the macro scope/selector.
StatementKey(st) ==
  IF st.arg_name = <<>>
  THEN KeyTuple(IF st.scope # <<>> THEN st.scope \o <<"/">> \o st.selector
                ELSE st.selector,
                Sel_macro, <<"v", "a", "l", "u", "e">>)
  ELSE KeyTuple(st.scope, st.selector, st.arg_name)

\* _UnknownConfigurableReference(selector, evaluate): it keeps the selector
\* without its scopes.
UnknownRef(scoped_selector, evaluate) ==
  [kind |-> "unknown_ref", n |-> 0,
   sel |-> RSplit1(scoped_selector, "/")[Len(RSplit1(scoped_selector, "/"))],
   evaluate |-> evaluate]

\* _should_skip that never skips.
ShouldSkipNever(reg, selector, skip_unknown) == FALSE

\* _should_skip(selector, skip_unknown)
ShouldSkip(reg, selector, skip_unknown) ==
  IF MatchingSelectors(reg, selector) # {} THEN FALSE
  ELSE IF skip_unknown.kind = "list" THEN selector \in skip_unknown.names
  ELSE skip_unknown.b

\* ConfigurableReference(scoped_selector, evaluate): initialize() asks the
\* registry for the selector and raises if there is no configurable.
NewConfigurableReference(scoped_selector, evaluate, found) ==
  IF found.status = "KeyError" THEN [status |-> "KeyError", value |-> REQUIRED]
  ELSE IF found.status = "none"
  THEN [status |-> "ValueError", value |-> REQUIRED]
  ELSE [status |-> "ok", value |-> Ref(scoped_selector, evaluate)]

\* ParserDelegate.configurable_reference(scoped_selector, evaluate)
ConfigurableReference(reg, skip_unknown, scoped_selector, evaluate) ==
  IF ShouldSkip(reg,
       RSplit1(scoped_selector, "/")[Len(RSplit1(scoped_selector, "/"))],
       skip_unknown)
  THEN [status |-> "ok", value |-> UnknownRef(scoped_selector, evaluate)]
  ELSE NewConfigurableReference(scoped_selector, evaluate,
         GetMatch(reg, RSplit1(scoped_selector, "/")
                         [Len(RSplit1(scoped_selector, "/"))]))

\* The parser's value for the text of a statement's value: '@sel' and
\* '@sel()' go through the delegate, a literal is itself.
ParseValue(reg, skip_unknown, v) ==
  IF v.kind = "ref"
  THEN ConfigurableReference(reg, skip_unknown, v.sel, v.evaluate)
  ELSE [status |-> "ok", value |-> v]

\* The body of parse_config's loop for a BindingStatement whose value the
\* parser gave as `parsed`: a macro is always bound, a binding is bound
\* unless its configurable is unknown and to be skipped.
ParseStatement(cfg, reg, locked, skip_unknown, st, parsed) ==
  IF parsed.status # "ok" THEN [status |-> parsed.status, config |-> cfg]
  ELSE IF st.arg_name # <<>> /\ ShouldSkip(reg, st.selector, skip_unknown)
  THEN [status |-> "ok", config |-> cfg]
  ELSE BindParameter(cfg, reg, locked, StatementKey(st), parsed.value)

RECURSIVE ParseConfigSkip(_, _, _, _, _)
\* parse_config that handles the statements that follow one that raised,
\* and raises at the end.
ParseConfigRestContinuing(r, reg, locked, skip_unknown, statements) ==
  IF r.status # "ok"
  THEN [status |-> r.status,
        config |-> ParseConfigSkip(r.config, reg, locked, skip_unknown,
                                   statements).config]
  ELSE ParseConfigSkip(r.config, reg, locked, skip_unknown, statements)

\* parse_config after a statement was handled with result r: the statements
\* that follow are handled unless r is an exception.
ParseConfigRest(r, reg, locked, skip_unknown, statements) ==
  IF r.status # "ok" THEN r
  ELSE ParseConfigSkip(r.config, reg, locked, skip_unknown, statements)

\* parse_config(bindings, skip_unknown) for the statements of `bindings`:
\* they are parsed and bound in order until one raises.
ParseConfigSkip(cfg, reg, locked, skip_unknown, statements) ==
  IF statements = <<>> THEN [status |-> "ok", config |-> cfg]
  ELSE ParseConfigRest(
         ParseStatement(cfg, reg, locked, skip_unknown, Head(statements),
           ParseValue(reg, skip_unknown, Head(statements).value)),
         reg, locked, skip_unknown, Tail(statements))

\* parse_config(bindings): skip_unknown is False.
ParseConfig(cfg, reg, locked, statements) ==
  ParseConfigSkip(cfg, reg, locked, SkipBool(FALSE), statements)

\* How many parameter values the store holds.
NumBindings(cfg) ==
  Cardinality(UNION {{<<k, p>> : p \in DOMAIN cfg[k]} : k \in DOMAIN cfg})

\* unlock_config after its yield: the flag it leaves when the block is left
\* by its body returning, or by an exception thrown into the generator.
UnlockConfigExit(how, flag, config_was_locked) ==
  IF how = "return" THEN config_was_locked ELSE flag

-----------------------------------------------------------------------------
(* Parameter injection: _get_bindings and gin_wrapper (gin/config.py)      *)

\* d.update(e)
DictUpdate(d, e) ==
  [k \in DOMAIN d \cup DOMAIN e |-> IF k \in DOMAIN e THEN e[k] ELSE d[k]]

\* d without the keys in ks.
DictWithout(d, ks) == [k \in DOMAIN d \ ks |-> d[k]]

\* The elements of a sequence, as a set.
Range(seq) == {seq[i] : i \in 1..Len(seq)}

RECURSIVE Keep(_, _)
\* [e for e in seq if e in set]
Keep(seq, set) ==
  IF seq = <<>> THEN <<>>
  ELSE IF Head(seq) \in set THEN <<Head(seq)>> \o Keep(Tail(seq), set)
  ELSE Keep(Tail(seq), set)

RECURSIVE GetBindingsKeepingShallower(_, _, _, _, _)
\* The loop of _get_bindings if a deeper scope did not overwrite what a
\* shallower one bound.
GetBindingsKeepingShallower(cfg, selector, scope_components, i, new_kwargs) ==
  IF i > Len(scope_components) THEN new_kwargs
  ELSE GetBindingsKeepingShallower(cfg, selector, scope_components, i + 1,
         DictUpdate(ConfigGet(cfg, <<Join(SubSeq(scope_components, 1, i), "/"),
                                     selector>>),
                    new_kwargs))

RECURSIVE GetBindingsFrom(_, _, _, _, _)
\* The loop of _get_bindings over partial_scopes, from scope_components[:i]
\* on, new_kwargs being what the shallower scopes gave.
GetBindingsFrom(cfg, selector, scope_components, i, new_kwargs) ==
  IF i > Len(scope_components) THEN new_kwargs
  ELSE GetBindingsFrom(cfg, selector, scope_components, i + 1,
         DictUpdate(new_kwargs,
           ConfigGet(cfg, <<Join(SubSeq(scope_components, 1, i), "/"),
                            selector>>)))

\* _get_bindings(selector), scope_components being current_scope().
GetBindings(cfg, selector, scope_components) ==
  GetBindingsFrom(cfg, selector, scope_components, 0, EmptyDict)

\* Keyword arguments are a sequence of <<name, value>> pairs, in the order
\* the caller wrote them.
KwNames(kwargs) == {kwargs[i][1] : i \in 1..Len(kwargs)}
KwDict(kwargs) ==
  [n \in KwNames(kwargs) |->
     kwargs[CHOOSE i \in 1..Len(kwargs) : kwargs[i][1] = n][2]]

\* _get_supplied_positional_parameter_names
ArgNames(fn, args) ==
  SubSeq(Signature(fn).args, 1,
         IF Len(args) < Len(Signature(fn).args) THEN Len(args)
         ELSE Len(Signature(fn).args))

\* gin_wrapper: required_arg_names, the positional arguments given REQUIRED.
RequiredArgNames(arg_names, args) ==
  Keep(arg_names, {arg_names[i] : i \in {j \in 1..Len(arg_names) :
                                          args[j] = REQUIRED}})

\* list(kwargs): the keywords in call order.
KwNameSeq(kwargs) == [i \in 1..Len(kwargs) |-> kwargs[i][1]]

\* gin_wrapper: caller_required_kwargs, the keywords given REQUIRED.
CallerRequiredKwargs(kwargs) ==
  Keep(KwNameSeq(kwargs),
       {kwargs[i][1] : i \in {j \in 1..Len(kwargs) : kwargs[j][2] = REQUIRED}})

\* gin_wrapper that pops nothing from new_kwargs before it copies them.
PopSuppliedNone(new_kwargs, arg_names, required_arg_names) == new_kwargs

\* gin_wrapper: the names given positionally, REQUIRED excepted, are popped
\* from new_kwargs.
PopSupplied(new_kwargs, arg_names, required_arg_names) ==
  DictWithout(new_kwargs, Range(arg_names) \ Range(required_arg_names))

\* What copy.deepcopy gives for an evaluated reference if __deepcopy__ does
\* not run the configurable.
DeepCopyValueNoCall(v, id) ==
  IF v.kind = "ref" THEN Wrapper(v.sel) ELSE v

\* ConfigurableReference.__deepcopy__ for a reference, and copy.deepcopy for
\* any other value: an evaluated reference runs its configurable, which
\* returns the object numbered id; a reference that is not evaluated gives
\* the configurable's wrapper.
DeepCopyValue(v, id) ==
  IF v.kind = "ref" THEN (IF v.evaluate THEN Obj(id) ELSE Wrapper(v.sel))
  ELSE v

\* The evaluated references among the values of d, for the keys in `names`.
Evaluated(d, names) ==
  {k \in DOMAIN d \cap names : d[k].kind = "ref" /\ d[k].evaluate}

\* copy.deepcopy(new_kwargs): the copy, and how many configurables ran.  The
\* i-th evaluated reference, in the order of the signature, gives the object
\* numbered next_id + i.
DeepCopy(new_kwargs, fn, next_id) ==
  [dict |-> [k \in DOMAIN new_kwargs |->
               DeepCopyValue(new_kwargs[k], next_id + 1 +
                 Cardinality(Evaluated(new_kwargs,
                   {Signature(fn).args[j] : j \in {i \in 1..Len(Signature(fn).args) :
                      \E m \in i + 1..Len(Signature(fn).args) :
                        Signature(fn).args[m] = k}})))],
   invoked |-> Cardinality(Evaluated(new_kwargs, DOMAIN new_kwargs))]

\* _get_validated_required_kwargs: the parameters whose default is REQUIRED.
SignatureRequiredKwargs(fn) ==
  Keep(Signature(fn).args,
       {k \in DOMAIN Signature(fn).defaults : Signature(fn).defaults[k] = REQUIRED})

\* gin_wrapper: missing_required_params as the three loops collect it;
\* new_kwargs is the copy, rest is the copy without the values that the first
\* loop moved to new_args.
MissingRequiredParams(fn, arg_names, required_arg_names, kwargs, new_kwargs, rest) ==
  Keep(required_arg_names, Range(required_arg_names) \ DOMAIN new_kwargs)
  \o Keep(SignatureRequiredKwargs(fn),
          Range(SignatureRequiredKwargs(fn))
            \ (Range(arg_names) \cup KwNames(kwargs) \cup DOMAIN rest))
  \o Keep(CallerRequiredKwargs(kwargs),
          Range(CallerRequiredKwargs(kwargs)) \ DOMAIN rest)

\* _order_by_signature that returns the names as they were collected.
OrderAsCollected(fn, arg_names) == arg_names

\* _order_by_signature
OrderBySignature(fn, arg_names) ==
  Keep(Signature(fn).args, Range(arg_names))
  \o Keep(arg_names, Range(arg_names) \ Range(Signature(fn).args))

\* new_kwargs.update(kwargs) done the other way round: the configured value
\* stays.
UpdateKeepingConfig(new_kwargs, kwargs) == DictUpdate(KwDict(kwargs), new_kwargs)

\* new_kwargs.update(kwargs): the caller has the final say.
UpdateWithKwargs(new_kwargs, kwargs) == DictUpdate(new_kwargs, KwDict(kwargs))

\* gin_wrapper: new_args, where a positional REQUIRED that is bound is
\* replaced by the bound value.
NewArgs(args, arg_names, new_kwargs) ==
  [i \in 1..Len(args) |->
     IF /\ i <= Len(arg_names)
        /\ args[i] = REQUIRED
        /\ arg_names[i] \in DOMAIN new_kwargs
     THEN new_kwargs[arg_names[i]] ELSE args[i]]

RECURSIVE KwargsWithout(_, _)
\* kwargs after kwargs.pop(name) for the names in `names`.
KwargsWithout(kwargs, names) ==
  IF kwargs = <<>> THEN <<>>
  ELSE IF Head(kwargs)[1] \in names THEN KwargsWithout(Tail(kwargs), names)
  ELSE <<Head(kwargs)>> \o KwargsWithout(Tail(kwargs), names)

\* The position of parameter p in the signature of fn.
ArgIndex(fn, p) == CHOOSE i \in 1..Len(Signature(fn).args) :
                     Signature(fn).args[i] = p

\* fn(*new_args, **new_kwargs): Python binds the arguments to the parameters
\* of fn, which has no *args and no **kwargs, or raises TypeError.
CallTarget(fn, new_args, new_kwargs, invoked) ==
  IF \/ Len(new_args) > Len(Signature(fn).args)
     \/ Range(ArgNames(fn, new_args)) \cap DOMAIN new_kwargs # {}
     \/ ~(DOMAIN new_kwargs \subseteq Range(Signature(fn).args))
     \/ \E p \in Range(Signature(fn).args) :
          /\ ArgIndex(fn, p) > Len(new_args)
          /\ p \notin DOMAIN new_kwargs
          /\ p \notin DOMAIN Signature(fn).defaults
  THEN [status |-> "TypeError", received |-> EmptyDict, missing |-> <<>>,
        invoked |-> invoked, called |-> FALSE]
  ELSE [status |-> "ok",
        received |-> [p \in Range(Signature(fn).args) |->
           IF ArgIndex(fn, p) <= Len(new_args) THEN new_args[ArgIndex(fn, p)]
           ELSE IF p \in DOMAIN new_kwargs THEN new_kwargs[p]
           ELSE Signature(fn).defaults[p]],
        missing |-> <<>>, invoked |-> invoked, called |-> TRUE]

\* gin_wrapper from `if missing_required_params:` on.
GinWrapperCall(fn, args, kwargs, arg_names, new_kwargs, rest, invoked, missing_required_params) ==
  IF missing_required_params # <<>>
  THEN [status |-> "RuntimeError", received |-> EmptyDict,
        missing |-> OrderBySignature(fn, missing_required_params),
        invoked |-> invoked, called |-> FALSE]
  ELSE CallTarget(fn, NewArgs(args, arg_names, new_kwargs),
                  UpdateWithKwargs(rest,
                    KwargsWithout(kwargs, Range(CallerRequiredKwargs(kwargs)))),
                  invoked)

\* gin_wrapper from the validation of the REQUIRED arguments on; copied is
\* what copy.deepcopy gave.
GinWrapperValidate(fn, args, kwargs, arg_names, required_arg_names, copied) ==
  GinWrapperCall(fn, args, kwargs, arg_names, copied.dict,
    DictWithout(copied.dict, Range(required_arg_names)), copied.invoked,
    MissingRequiredParams(fn, arg_names, required_arg_names, kwargs,
      copied.dict, DictWithout(copied.dict, Range(required_arg_names))))

\* The parameters of fn that d binds to an unknown reference.
UnknownIn(d, fn) ==
  Keep(Signature(fn).args, {k \in DOMAIN d : d[k].kind = "unknown_ref"})

\* copy.deepcopy(new_kwargs) when it meets an unknown reference:
\* _UnknownConfigurableReference.__deepcopy__ raises ValueError; the
\* evaluated references copied before it have run.
DeepCopyRaises(new_kwargs, fn) ==
  [status |-> "ValueError", received |-> EmptyDict, missing |-> <<>>,
   invoked |-> Cardinality(Evaluated(new_kwargs,
                 {Signature(fn).args[j] : j \in {i \in 1..Len(Signature(fn).args) :
                    \E m \in i + 1..Len(Signature(fn).args) :
                      Signature(fn).args[m] = Head(UnknownIn(new_kwargs, fn))}})),
   called |-> FALSE]

\* gin_wrapper from copy.deepcopy(new_kwargs) on, the positional names
\* being popped.
GinWrapperCopy(fn, args, kwargs, arg_names, new_kwargs, next_id) ==
  IF UnknownIn(new_kwargs, fn) # <<>> THEN DeepCopyRaises(new_kwargs, fn)
  ELSE GinWrapperValidate(fn, args, kwargs, arg_names,
         RequiredArgNames(arg_names, args), DeepCopy(new_kwargs, fn, next_id))

\* gin_wrapper once the bindings visible in the current scope are merged.
GinWrapperInject(fn, args, kwargs, arg_names, new_kwargs, next_id) ==
  GinWrapperCopy(fn, args, kwargs, arg_names,
    PopSupplied(new_kwargs, arg_names, RequiredArgNames(arg_names, args)),
    next_id)

\* gin_wrapper(*args, **kwargs) of the configurable fn registered under
\* selector, called in the scope scope_components: the status, the
\* parameters the target is invoked with, the missing parameters that the
\* RuntimeError lists, and how many referenced configurables ran.
GinWrapper(cfg, selector, fn, scope_components, args, kwargs, next_id) ==
  GinWrapperInject(fn, args, kwargs, ArgNames(fn, args),
                   GetBindings(cfg, selector, scope_components), next_id)

-----------------------------------------------------------------------------
(* Singletons (gin/config.py)                                              *)

\* 'constructor', the parameter of gin.singleton.
ConstructorParam == Signature("singleton").args[1]

\* The value is an evaluated reference to gin.singleton: '@key/singleton()'.
\* gin registers singleton on import, and nothing else under that name.
IsSingletonRef(v) ==
  /\ v.kind = "ref" /\ v.evaluate
  /\ IsSuffix(Split(RSplit1(v.sel, "/")[Len(RSplit1(v.sel, "/"))], "."),
              Split(Sel_singleton, "."))

\* The scope a reference is run in: its own scopes if it has any
\* (_decorate_with_scope), the scope of the call that copies it otherwise.
RefScope(v, scope_components) ==
  IF Len(RSplit1(v.sel, "/")) = 1 THEN scope_components
  ELSE Split(RSplit1(v.sel, "/")[1], "/")

\* The outcome of an access: the object, the table, how many configurables
\* ran.
Accessed(status, value, singletons, invoked) ==
  [status |-> status, value |-> value, singletons |-> singletons,
   invoked |-> invoked]

\* singleton_value that constructs on every access.
SingletonValueAlways(singletons, key, constructor, id, invoked) ==
  IF constructor.kind # "fn"
  THEN Accessed("ValueError", REQUIRED, singletons, invoked)
  ELSE Accessed("ok", Obj(id + 1), DictSet(singletons, key, Obj(id + 1)),
                invoked + 1)

\* singleton_value(key, constructor): the stored object if there is one;
\* otherwise the constructor, which must be callable, is called, and what it
\* returns is stored.  The wrappers bound as constructors are those of T,
\* whose run returns the object numbered id + 1.
SingletonValue(singletons, key, constructor, id, invoked) ==
  IF key \in DOMAIN singletons
  THEN Accessed("ok", singletons[key], singletons, invoked)
  ELSE IF constructor.kind # "fn"
  THEN Accessed("ValueError", REQUIRED, singletons, invoked)
  ELSE Accessed("ok", Obj(id + 1), DictSet(singletons, key, Obj(id + 1)),
                invoked + 1)

\* gin_wrapper of singleton once its bindings are merged: without a binding
\* for `constructor` the call singleton() raises TypeError; an unknown
\* reference raises when copied; an evaluated reference runs T first.
SingletonWrapper(singletons, key, new_kwargs, id) ==
  IF ConstructorParam \notin DOMAIN new_kwargs
  THEN Accessed("TypeError", REQUIRED, singletons, 0)
  ELSE IF new_kwargs[ConstructorParam].kind = "unknown_ref"
  THEN Accessed("ValueError", REQUIRED, singletons, 0)
  ELSE SingletonValue(singletons, key,
         DeepCopyValue(new_kwargs[ConstructorParam], id + 1),
         id + Cardinality(Evaluated(new_kwargs, {ConstructorParam})),
         Cardinality(Evaluated(new_kwargs, {ConstructorParam})))

\* The configurable singleton called in the scope scope_components: the key
\* is current_scope_str().
Singleton(cfg, singletons, scope_components, id) ==
  SingletonWrapper(singletons, Join(scope_components, "/"),
                   GetBindings(cfg, Sel_singleton, scope_components), id)

\* What copy.deepcopy did so far: the status, the copy, how many
\* configurables ran, and the table of singletons.
Copied(status, dict, invoked, singletons) ==
  [status |-> status, dict |-> dict, invoked |-> invoked,
   singletons |-> singletons]

RECURSIVE DeepCopyEach(_, _, _, _, _, _)
\* copy.deepcopy once the value of `names[1]` was copied with outcome a.
DeepCopyNext(cfg, new_kwargs, names, scope_components, next_id, acc, a) ==
  IF a.status # "ok"
  THEN Copied(a.status, acc.dict, acc.invoked + a.invoked, a.singletons)
  ELSE DeepCopyEach(cfg, new_kwargs, Tail(names), scope_components, next_id,
         Copied("ok", DictSet(acc.dict, Head(names), a.value),
                acc.invoked + a.invoked, a.singletons))

\* copy.deepcopy of one value: a reference to singleton is run in its scope,
\* an unknown reference raises, and any other value is copied as before.
DeepCopyOne(cfg, v, scope_components, id, singletons) ==
  IF IsSingletonRef(v)
  THEN Singleton(cfg, singletons, RefScope(v, scope_components), id)
  ELSE IF v.kind = "unknown_ref"
  THEN Accessed("ValueError", REQUIRED, singletons, 0)
  ELSE Accessed("ok", DeepCopyValue(v, id + 1), singletons,
                IF v.kind = "ref" /\ v.evaluate THEN 1 ELSE 0)

\* copy.deepcopy(new_kwargs), value by value in the order `names`, with the
\* table of singletons as the accesses leave it.
DeepCopyEach(cfg, new_kwargs, names, scope_components, next_id, acc) ==
  IF names = <<>> THEN acc
  ELSE DeepCopyNext(cfg, new_kwargs, names, scope_components, next_id, acc,
         DeepCopyOne(cfg, new_kwargs[Head(names)], scope_components,
                     next_id + acc.invoked, acc.singletons))

\* The outcome of gin_wrapper together with the table of singletons.
WithSingletons(r, singletons) ==
  [status |-> r.status, received |-> r.received, missing |-> r.missing,
   invoked |-> r.invoked, called |-> r.called, singletons |-> singletons]

\* gin_wrapper from copy.deepcopy on, when new_kwargs holds a reference to
\* singleton: copied is what copy.deepcopy gave.
GinWrapperCopied(fn, args, kwargs, arg_names, copied) ==
  IF copied.status # "ok"
  THEN [status |-> copied.status, received |-> EmptyDict, missing |-> <<>>,
        invoked |-> copied.invoked, called |-> FALSE,
        singletons |-> copied.singletons]
  ELSE WithSingletons(
         GinWrapperValidate(fn, args, kwargs, arg_names,
                            RequiredArgNames(arg_names, args), copied),
         copied.singletons)

\* gin_wrapper once the bindings are merged and the positional names
\* popped, when new_kwargs holds a reference to singleton.
GinWrapperPopped(cfg, singletons, fn, scope_components, args, kwargs, new_kwargs, next_id) ==
  GinWrapperCopied(fn, args, kwargs, ArgNames(fn, args),
    DeepCopyEach(cfg, new_kwargs, Keep(Signature(fn).args, DOMAIN new_kwargs),
                 scope_components, next_id,
                 Copied("ok", EmptyDict, 0, singletons)))

\* The bindings that gin_wrapper copies hold a reference to singleton.
CopiesSingletonRef(new_kwargs) ==
  \E k \in DOMAIN new_kwargs : IsSingletonRef(new_kwargs[k])

\* gin_wrapper(*args, **kwargs) with the table of singletons it leaves: the
\* table changes only if a reference to gin.singleton is copied.
GinWrapperSingletons(cfg, singletons, selector, fn, scope_components, args, kwargs, next_id) ==
  IF CopiesSingletonRef(
       PopSupplied(GetBindings(cfg, selector, scope_components),
                   ArgNames(fn, args),
                   RequiredArgNames(ArgNames(fn, args), args)))
  THEN GinWrapperPopped(cfg, singletons, fn, scope_components, args, kwargs,
         PopSupplied(GetBindings(cfg, selector, scope_components),
                     ArgNames(fn, args),
                     RequiredArgNames(ArgNames(fn, args), args)),
         next_id)
  ELSE WithSingletons(
         GinWrapper(cfg, selector, fn, scope_components, args, kwargs,
                    next_id),
         singletons)

-----------------------------------------------------------------------------
(* finalize and its hooks (gin/config.py)                                  *)

\* The values bound in the store; the model's values do not nest.
ConfigValues(cfg) == UNION {{cfg[k][p] : p \in DOMAIN cfg[k]} : k \in DOMAIN cfg}

\* The selector of a reference without its scopes.
UnscopedSelector(v) == RSplit1(v.sel, "/")[Len(RSplit1(v.sel, "/"))]

\* validate_macros_hook: a reference to gin.macro must be evaluated.
ValidateMacrosHook(cfg, reg) ==
  IF \E v \in ConfigValues(cfg) :
       /\ v.kind = "ref" /\ ~v.evaluate
       /\ Sel_macro \in MatchingSelectors(reg, UnscopedSelector(v))
  THEN "ValueError" ELSE "ok"

\* find_unknown_references_hook: any unknown reference in the store raises.
FindUnknownReferencesHook(cfg) ==
  IF \E v \in ConfigValues(cfg) : v.kind = "unknown_ref"
  THEN "ValueError" ELSE "ok"

\* find_missing_overrides_hook: a binding to %gin.REQUIRED raises.
FindMissingOverridesHook(cfg) ==
  IF \E v \in ConfigValues(cfg) :
       /\ v.kind = "ref"
       /\ v.sel = <<"g", "i", "n", ".", "R", "E", "Q", "U", "I", "R", "E", "D", "/">>
                    \o Sel_constant
  THEN "ValueError" ELSE "ok"

\* The three hooks gin registers itself, which return no bindings: the
\* status of the first that raises.
BuiltinHooks(cfg, reg) ==
  IF ValidateMacrosHook(cfg, reg) # "ok" THEN ValidateMacrosHook(cfg, reg)
  ELSE IF FindUnknownReferencesHook(cfg) # "ok"
  THEN FindUnknownReferencesHook(cfg)
  ELSE FindMissingOverridesHook(cfg)

\* ParsedBindingKey equality as __equal__ words it: given_selector ignored.
PbkEqualIgnoringGiven(a, b) ==
  <<a.scope, a.complete_selector, a.arg_name>>
    = <<b.scope, b.complete_selector, b.arg_name>>

\* pbk == other: ParsedBindingKey defines __equal__, which Python never
\* calls, so == is the tuple's and compares all four fields.
PbkEq(a, b) ==
  <<a.scope, a.given_selector, a.complete_selector, a.arg_name>>
    = <<b.scope, b.given_selector, b.complete_selector, b.arg_name>>

\* pbk in bindings, bindings being the (key, value) items in insertion order
PbkIn(pbk, bindings) ==
  \E i \in 1..Len(bindings) : PbkEq(pbk, bindings[i][1])

RECURSIVE CollectItems(_, _, _)
\* finalize: the loop over new_bindings.items() for one hook.
CollectItemsRest(reg, items, bindings, pbk) ==
  IF pbk.status # "ok" THEN [status |-> pbk.status, bindings |-> bindings]
  ELSE IF PbkIn(pbk, bindings)
  THEN [status |-> "ValueError", bindings |-> bindings]
  ELSE CollectItems(reg, Tail(items),
                    Append(bindings, <<pbk, Head(items)[2]>>))

CollectItems(reg, items, bindings) ==
  IF items = <<>> THEN [status |-> "ok", bindings |-> bindings]
  ELSE CollectItemsRest(reg, items, bindings,
                        ParsedBindingKeyParse(reg, Head(items)[1]))

RECURSIVE CollectHooks(_, _, _)
\* finalize: the loop over the hooks the program registered.
CollectHooksRest(reg, hooks, r) ==
  IF r.status # "ok" THEN r ELSE CollectHooks(reg, hooks, r.bindings)

CollectHooks(reg, hooks, bindings) ==
  IF hooks = <<>> THEN [status |-> "ok", bindings |-> bindings]
  ELSE CollectHooksRest(reg, Tail(hooks),
                        CollectItems(reg, Head(hooks), bindings))

RECURSIVE BindAll(_, _)
\* finalize: bind_parameter(pbk, value) for the collected bindings.
BindAll(cfg, bindings) ==
  IF bindings = <<>> THEN cfg
  ELSE BindAll(BindParsed(cfg, Head(bindings)[1], Head(bindings)[2]).config,
               Tail(bindings))

\* finalize that binds what was collected before a hook raised.
FinalizeCollectedAnyway(cfg, r) ==
  IF r.status # "ok"
  THEN [status |-> r.status, config |-> BindAll(cfg, r.bindings),
        locked |-> FALSE]
  ELSE [status |-> "ok", config |-> BindAll(cfg, r.bindings),
        locked |-> TRUE]

\* finalize once the hooks were run with outcome r.
FinalizeCollected(cfg, r) ==
  IF r.status # "ok"
  THEN [status |-> r.status, config |-> cfg, locked |-> FALSE]
  ELSE [status |-> "ok", config |-> BindAll(cfg, r.bindings),
        locked |-> TRUE]

\* finalize(): the status, the store and the lock flag it leaves.  The
\* hooks of gin run first, then those of the program, in the order of
\* registration.
Finalize(cfg, reg, locked, hooks) ==
  IF locked THEN [status |-> "RuntimeError", config |-> cfg, locked |-> TRUE]
  ELSE IF BuiltinHooks(cfg, reg) # "ok"
  THEN [status |-> BuiltinHooks(cfg, reg), config |-> cfg, locked |-> FALSE]
  ELSE FinalizeCollected(cfg, CollectHooks(reg, hooks, <<>>))

-----------------------------------------------------------------------------
(* Rendering the store as text and parsing the text (gin/config.py,        *)
(* gin/config_parser.py).  A text is the sequence of its lines.            *)

\* The characters of the model's texts in the order of their code points.
CodePoints ==
  <<" ", "#", "%", "(", ")", ".", "/", "0", "1", "2", "3", "4", "5", "6",
    "7", "8", "9", ":", "<", "=", ">", "@", "T", "_", "a", "b", "c", "d",
    "e", "f", "g", "h", "i", "k", "l", "m", "n", "o", "r", "s", "t", "u",
    "v", "x", "y">>

\* ord(c)
Ord(c) == CHOOSE i \in 1..Len(CodePoints) : CodePoints[i] = c

\* str.lower() of a string
Lower(str) == [i \in 1..Len(str) |-> IF str[i] = "T" THEN "t" ELSE str[i]]

\* a < b for two strings
StrLess(a, b) ==
  \E i \in 1..Len(b) :
    /\ i <= Len(a) + 1
    /\ SubSeq(a, 1, i - 1) = SubSeq(b, 1, i - 1)
    /\ (i = Len(a) + 1 \/ Ord(a[i]) < Ord(b[i]))

\* a < b for two lists of strings
ListLess(a, b) ==
  \E i \in 1..Len(b) :
    /\ i <= Len(a) + 1
    /\ SubSeq(a, 1, i - 1) = SubSeq(b, 1, i - 1)
    /\ (i = Len(a) + 1 \/ StrLess(a[i], b[i]))

RECURSIVE IntRepr(_)
\* repr(n) of an int n >= 0
IntRepr(n) ==
  IF n < 10 THEN <<CodePoints[8 + n]>>
  ELSE IntRepr(n \div 10) \o <<CodePoints[8 + (n % 10)]>>

RECURSIVE IntLiteral(_, _)
\* ast.literal_eval of a string of digits, acc being the value so far
IntLiteral(str, acc) ==
  IF str = <<>> THEN acc
  ELSE IntLiteral(Tail(str), 10 * acc + (Ord(Head(str)) - 8))

\* The configurable a reference was resolved to when it was created.
RefConfigurable(reg, v) == GetMatch(reg, UnscopedSelector(v)).value.wrapped

\* repr(value): ConfigurableReference.__repr__ writes an evaluated reference
\* to a macro or constant as %scope and any other as @scoped_selector, with
\* () if evaluated; an int is its digits; the repr of the sentinel, of an
\* object and of an unknown reference is '<... object at 0x...>'.
Repr(reg, v) ==
  IF v.kind = "lit" THEN IntRepr(v.n)
  ELSE IF v.kind = "ref"
  THEN (IF v.evaluate /\ RefConfigurable(reg, v)
                           \in {"macro", "_retrieve_constant"}
        THEN <<"%">> \o ParseScopedSelector(v.sel).scope
        ELSE <<"@">> \o v.sel \o (IF v.evaluate THEN <<"(", ")">> ELSE <<>>))
  ELSE <<"<">> \o IntRepr(v.n) \o <<">">>

\* ParserDelegate.macro(name): _CONSTANTS holds gin.REQUIRED only, which the
\* names of the model do not match, so the name is that of a macro.
Macro(reg, name) ==
  NewConfigurableReference(name \o <<"/">> \o Sel_macro, TRUE,
                           GetMatch(reg, Sel_macro))

\* ConfigParser.parse_value: a number, a reference '@name' or '@name()', or
\* a macro '%name'; anything else is a SyntaxError.
ParseValueText(reg, skip_unknown, str) ==
  IF str # <<>> /\ \A i \in 1..Len(str) : str[i] \in Digits
  THEN [status |-> "ok", value |-> Lit(IntLiteral(str, 0))]
  ELSE IF Len(str) > 1 /\ str[1] = "@"
  THEN (IF Len(str) > 3 /\ SubSeq(str, Len(str) - 1, Len(str)) = <<"(", ")">>
        THEN ConfigurableReference(reg, skip_unknown,
                                   SubSeq(str, 2, Len(str) - 2), TRUE)
        ELSE ConfigurableReference(reg, skip_unknown, Tail(str), FALSE))
  ELSE IF Len(str) > 1 /\ str[1] = "%" THEN Macro(reg, Tail(str))
  ELSE [status |-> "SyntaxError", value |-> REQUIRED]

\* value == other: ConfigurableReference.__eq__ compares the configurable
\* and evaluate; ints compare by value; objects by identity.
ValueEq(reg, a, b) ==
  IF a.kind = "ref" /\ b.kind = "ref"
  THEN RefConfigurable(reg, a) = RefConfigurable(reg, b)
       /\ a.evaluate = b.evaluate
  ELSE a = b

\* _is_literally_representable(value): _format_value(value) is not None,
\* that is parse_value(repr(value)) == value.
IsLiterallyRepresentable(reg, v) ==
  /\ ParseValueText(reg, SkipBool(FALSE), Repr(reg, v)).status = "ok"
  /\ ValueEq(reg, ParseValueText(reg, SkipBool(FALSE), Repr(reg, v)).value, v)

\* format_binding(key, value), for a value that fits the line.
FormatBinding(reg, key, value) == key \o <<" ", "=", " ">> \o Repr(reg, value)

\* sort_key(key_tuple): the components of the selector and then of the
\* scope, innermost first, in lower case.
SortKey(config_key) ==
  Reverse(Split(Lower(config_key[2]), ".")) \o
  Reverse(Split(Lower(config_key[1]), "/"))

RECURSIVE Sorted(_, _)
\* sorted(keys, key=less): the keys in ascending order.
SortedBySortKey(keys) == Sorted(keys, <<>>)
Sorted(keys, done) ==
  IF keys = {} THEN done
  ELSE Sorted(keys \ {CHOOSE k \in keys :
                        \A o \in keys \ {k} : ListLess(SortKey(k), SortKey(o))},
              Append(done, CHOOSE k \in keys :
                        \A o \in keys \ {k} : ListLess(SortKey(k), SortKey(o))))

RECURSIVE SortedNames(_, _)
\* sorted(parameters): the parameter names in ascending order.
SortedNames(names, done) ==
  IF names = {} THEN done
  ELSE SortedNames(names \ {CHOOSE k \in names :
                              \A o \in names \ {k} : StrLess(k, o)},
                   Append(done, CHOOSE k \in names :
                              \A o \in names \ {k} : StrLess(k, o)))

\* The keys of the store whose configurable is gin.macro.
MacroKeys(cfg, reg) ==
  {k \in DOMAIN cfg : GetMatch(reg, k[2]).value.wrapped = "macro"}

\* The keys of the store that _config_str lists after the macros.
ParameterKeys(cfg, reg) ==
  {k \in DOMAIN cfg : GetMatch(reg, k[2]).value.wrapped
                        \notin {"macro", "_retrieve_constant"}}

\* '# Macros:' and '# Parameters for ...:' with the rule under them, a
\* comment line of '=' that is written here with two of them.
Heading(title) ==
  << <<"#", " ">> \o title \o <<":">>, <<"#", " ", "=", "=">> >>

\* _config_str: the lines of the macros, which are formatted without asking
\* whether the value is representable.
MacroLines(cfg, reg, keys) ==
  [i \in 1..Len(keys) |->
     FormatBinding(reg, keys[i][1], cfg[keys[i]][<<"v", "a", "l", "u", "e">>])]

\* _config_str: scope/minimal_selector of a key.
ScopedSelector(reg, key) ==
  (IF key[1] # <<>> THEN key[1] \o <<"/">> ELSE <<>>)
    \o MinimalSelector(reg, key[2]).value

\* _config_str: the lines of the parameters of one configurable, those that
\* are literally representable, sorted by name; '# None.' if there is none.
ParameterLines(reg, scoped_selector, config, names) ==
  Heading(<<"P", "a", "r", "a", "m", "e", "t", "e", "r", "s", " ", "f", "o",
            "r", " ">> \o scoped_selector)
  \o (IF names = <<>> THEN << <<"#", " ", "N", "o", "n", "e", ".">> >>
      ELSE [i \in 1..Len(names) |->
              FormatBinding(reg, scoped_selector \o <<".">> \o names[i],
                            config[names[i]])])
  \o << <<>> >>

RECURSIVE AllParameterLines(_, _, _)
\* _config_str: the loop over sorted_items.
AllParameterLines(cfg, reg, keys) ==
  IF keys = <<>> THEN <<>>
  ELSE ParameterLines(reg, ScopedSelector(reg, Head(keys)), cfg[Head(keys)],
         SortedNames({k \in DOMAIN cfg[Head(keys)] :
                        IsLiterallyRepresentable(reg, cfg[Head(keys)][k])},
                     <<>>))
       \o AllParameterLines(cfg, reg, Tail(keys))

\* _config_str(configuration_object) without imports; '\n'.join of the
\* lines is the text.
ConfigStr(cfg, reg) ==
  (IF MacroKeys(cfg, reg) # {}
   THEN Heading(<<"M", "a", "c", "r", "o", "s">>)
        \o MacroLines(cfg, reg, SortedBySortKey(MacroKeys(cfg, reg)))
        \o << <<>> >>
   ELSE <<>>)
  \o AllParameterLines(cfg, reg, SortedBySortKey(ParameterKeys(cfg, reg)))

\* The position of the first ' = ' in a line, 0 if there is none.
FindEquals(line) ==
  IF \E i \in 1..Len(line) - 2 : SubSeq(line, i, i + 2) = <<" ", "=", " ">>
  THEN CHOOSE i \in 1..Len(line) - 2 :
         /\ SubSeq(line, i, i + 2) = <<" ", "=", " ">>
         /\ \A j \in 1..i - 1 : SubSeq(line, j, j + 2) # <<" ", "=", " ">>
  ELSE 0

\* ConfigParser._parse_selector accepts the key: scopes and a dotted name.
SelectorSyntax(key) ==
  /\ key # <<>>
  /\ \A i \in 1..Len(Split(key, "/")) :
       IF i < Len(Split(key, "/")) THEN IdentifierRE(Split(key, "/")[i])
       ELSE Split(key, "/")[i] # <<>> /\ SelectorRE(Split(key, "/")[i])

\* ConfigParser.parse_statement for a line 'key = value': the
\* BindingStatement, or the exception raised.
ParseLine(reg, skip_unknown, line, eq, parsed) ==
  IF eq = 0 \/ ~SelectorSyntax(SubSeq(line, 1, eq - 1))
  THEN [status |-> "SyntaxError", st |-> Statement(<<>>, <<>>, <<>>, REQUIRED)]
  ELSE [status |-> parsed.status,
        st |-> Statement(ParseBindingKey(SubSeq(line, 1, eq - 1)).scope,
                         ParseBindingKey(SubSeq(line, 1, eq - 1)).selector,
                         ParseBindingKey(SubSeq(line, 1, eq - 1)).arg_name,
                         parsed.value)]

RECURSIVE ParseConfigText(_, _, _, _, _)
\* parse_config once the parser gave the statement p for a line: the
\* statement is bound as parse_config binds any, and the lines that follow
\* are parsed unless an exception was raised.
ParseConfigTextRest(r, reg, locked, skip_unknown, lines) ==
  IF r.status # "ok" THEN r
  ELSE ParseConfigText(r.config, reg, locked, skip_unknown, lines)

ParseConfigTextBind(cfg, reg, locked, skip_unknown, p) ==
  IF p.status # "ok" THEN [status |-> p.status, config |-> cfg]
  ELSE ParseStatement(cfg, reg, locked, skip_unknown, p.st,
                      [status |-> "ok", value |-> p.st.value])

\* parse_config(text, skip_unknown): blank lines and comments are skipped,
\* the other lines are parsed and bound in order until one raises.
ParseConfigText(cfg, reg, locked, skip_unknown, lines) ==
  IF lines = <<>> THEN [status |-> "ok", config |-> cfg]
  ELSE IF Head(lines) = <<>> \/ Head(lines)[1] = "#"
  THEN ParseConfigText(cfg, reg, locked, skip_unknown, Tail(lines))
  ELSE ParseConfigTextRest(
         ParseConfigTextBind(cfg, reg, locked, skip_unknown,
           ParseLine(reg, skip_unknown, Head(lines), FindEquals(Head(lines)),
             ParseValueText(reg, skip_unknown,
               SubSeq(Head(lines), FindEquals(Head(lines)) + 3,
                      Len(Head(lines)))))),
         reg, locked, skip_unknown, Tail(lines))

-----------------------------------------------------------------------------
(* The operative config that gin_wrapper records (gin/config.py)           *)

\* _get_default_configurable_parameter_values: the defaults of the
\* signature that are literally representable, are not denylisted and are
\* allowlisted if there is an allowlist.
InitialConfigurableDefaults(reg, fn) ==
  [k \in {p \in DOMAIN Signature(fn).defaults :
            /\ IsLiterallyRepresentable(reg, Signature(fn).defaults[p])
            /\ ~(Allowlist(fn) # {} /\ p \notin Allowlist(fn))
            /\ ~(Denylist(fn) # {} /\ p \in Denylist(fn))}
     |-> Signature(fn).defaults[k]]

\* gin_wrapper that records the values whoever supplied the parameter.
OperativeParameterValuesOfAll(reg, fn, new_kwargs, args, kwargs) ==
  DictUpdate(InitialConfigurableDefaults(reg, fn), new_kwargs)

\* gin_wrapper: operative_parameter_values, the defaults updated with the
\* bindings that are left in new_kwargs, without the names that the caller
\* supplied with a value other than REQUIRED.
OperativeParameterValues(reg, fn, new_kwargs, args, kwargs) ==
  DictWithout(
    DictUpdate(InitialConfigurableDefaults(reg, fn),
               PopSupplied(new_kwargs, ArgNames(fn, args),
                           RequiredArgNames(ArgNames(fn, args), args))),
    (Range(ArgNames(fn, args))
       \ Range(RequiredArgNames(ArgNames(fn, args), args)))
    \cup (KwNames(kwargs) \ Range(CallerRequiredKwargs(kwargs))))

\* op_cfg = _OPERATIVE_CONFIG.setdefault((scope_str, selector), {});
\* op_cfg.update(operative_parameter_values)
OperativeUpdate(operative, scope_str, selector, operative_parameter_values) ==
  DictSet(operative, <<scope_str, selector>>,
          DictUpdate(ConfigGet(operative, <<scope_str, selector>>),
                     operative_parameter_values))

\* What the gin_wrapper of the configurable registered under selector
\* records when it is called in the scope scope_components.
OperativeCall(cfg, reg, operative, selector, fn, scope_components, args, kwargs) ==
  OperativeUpdate(operative, Join(scope_components, "/"), selector,
    OperativeParameterValues(reg, fn,
      GetBindings(cfg, selector, scope_components), args, kwargs))

\* The configurable that the reference v names.
RefTarget(reg, v) == GetMatch(reg, UnscopedSelector(v)).value

RECURSIVE OperativeRefs(_, _, _, _, _, _)
\* What is recorded when the evaluated references among the bindings
\* new_kwargs of a referenced configurable are run, parameter by parameter: the
\* configurables they name have no bindings that are references.
OperativeRefs(cfg, reg, operative, new_kwargs, names, scope_components) ==
  IF names = <<>> THEN operative
  ELSE IF new_kwargs[Head(names)].kind = "ref" /\ new_kwargs[Head(names)].evaluate
  THEN OperativeRefs(cfg, reg,
         OperativeCall(cfg, reg, operative,
           RefTarget(reg, new_kwargs[Head(names)]).selector,
           RefTarget(reg, new_kwargs[Head(names)]).wrapped,
           RefScope(new_kwargs[Head(names)], scope_components), <<>>, <<>>),
         new_kwargs, Tail(names), scope_components)
  ELSE OperativeRefs(cfg, reg, operative, new_kwargs, Tail(names),
                     scope_components)

\* What is recorded when copy.deepcopy meets the value v: an evaluated
\* reference runs the gin_wrapper of its configurable in the scope of the
\* reference, without arguments, which records and then copies its own
\* bindings.
OperativeOne(cfg, reg, operative, v, scope_components) ==
  IF v.kind = "ref" /\ v.evaluate
  THEN OperativeRefs(cfg, reg,
         OperativeCall(cfg, reg, operative, RefTarget(reg, v).selector,
                       RefTarget(reg, v).wrapped,
                       RefScope(v, scope_components), <<>>, <<>>),
         GetBindings(cfg, RefTarget(reg, v).selector,
                     RefScope(v, scope_components)),
         Keep(Signature(RefTarget(reg, v).wrapped).args,
              DOMAIN GetBindings(cfg, RefTarget(reg, v).selector,
                                 RefScope(v, scope_components))),
         RefScope(v, scope_components))
  ELSE operative

RECURSIVE OperativeEach(_, _, _, _, _, _, _, _)
\* copy.deepcopy once the value of names[1] was copied with outcome a: an
\* exception ends the copy.
OperativeNext(cfg, reg, operative, new_kwargs, names, scope_components, next_id, acc, a) ==
  IF a.status # "ok" THEN operative
  ELSE OperativeEach(cfg, reg, operative, new_kwargs, Tail(names),
         scope_components, next_id,
         Copied("ok", acc.dict, acc.invoked + a.invoked, a.singletons))

\* What the configurables that copy.deepcopy(new_kwargs) runs record, the
\* values being copied in the order `names`.
OperativeEach(cfg, reg, operative, new_kwargs, names, scope_components, next_id, acc) ==
  IF names = <<>> THEN operative
  ELSE OperativeNext(cfg, reg,
         OperativeOne(cfg, reg, operative, new_kwargs[Head(names)],
                      scope_components),
         new_kwargs, names, scope_components, next_id, acc,
         DeepCopyOne(cfg, new_kwargs[Head(names)], scope_components,
                     next_id + acc.invoked, acc.singletons))

\* _OPERATIVE_CONFIG once gin_wrapper recorded the call and new_kwargs, the
\* bindings without the names given positionally, is copied.
OperativeCopied(cfg, reg, singletons, operative, fn, scope_components, new_kwargs, next_id) ==
  IF Evaluated(new_kwargs, DOMAIN new_kwargs) = {} THEN operative
  ELSE OperativeEach(cfg, reg, operative, new_kwargs,
                     Keep(Signature(fn).args, DOMAIN new_kwargs),
                     scope_components, next_id,
                     Copied("ok", EmptyDict, 0, singletons))

\* _OPERATIVE_CONFIG as gin_wrapper(*args, **kwargs) leaves it.
OperativeAfter(cfg, reg, singletons, operative, selector, fn, scope_components, args, kwargs, next_id) ==
  OperativeCopied(cfg, reg, singletons,
    OperativeCall(cfg, reg, operative, selector, fn, scope_components, args,
                  kwargs),
    fn, scope_components,
    PopSupplied(GetBindings(cfg, selector, scope_components),
                ArgNames(fn, args),
                RequiredArgNames(ArgNames(fn, args), args)),
    next_id)

-----------------------------------------------------------------------------
(* The operations on the binding store, the registry and the lock flag     *)

MaxBindings == 2
MaxConfigurables == 6
MaxUnlockDepth == 1
MaxStatements == 2
MaxInvocations == 2
MaxHooks == 2

InitConfig ==
  /\ REGISTRY = InitRegistry
  /\ CONFIG = EmptyDict
  /\ CONFIG_IS_LOCKED = FALSE
  /\ unlock_frames = <<>>
  /\ invocations = 0
  /\ FINALIZE_HOOKS = <<>>
  /\ OPERATIVE_CONFIG = EmptyDict
  /\ SINGLETONS = EmptyDict
  /\ last_op = NoOp

\* The step of operation op, which gave the status and the store r.
Bound(op, r) ==
  /\ NumBindings(r.config) <= MaxBindings
  /\ CONFIG' = r.config
  /\ last_op' = Op(op, r.status, CONFIG_IS_LOCKED)
  /\ UNCHANGED <<threadVars, REGISTRY, CONFIG_IS_LOCKED, unlock_frames, invocations,
                 tableVars, selVars, scopeVars>>

\* gin.bind_parameter(binding_key, value)
DoBindParameter(binding_key, value) ==
  /\ binding_key.kind \in {"str", "tuple"}
  /\ Bound("bind_parameter",
           BindParameter(CONFIG, REGISTRY, CONFIG_IS_LOCKED, binding_key,
                         value))

\* The step of a bind_parameter(binding_key, value) that gave the status and
\* the store r.
BoundKey(binding_key, value, r) ==
  /\ NumBindings(r.config) <= MaxBindings
  /\ CONFIG' = r.config
  /\ last_op' = [Op("bind_parameter", r.status, CONFIG_IS_LOCKED) EXCEPT
                   !.key = binding_key, !.value = value]
  /\ UNCHANGED <<threadVars, REGISTRY, CONFIG_IS_LOCKED, unlock_frames, invocations,
                 tableVars, selVars, scopeVars>>

\* gin.bind_parameter(binding_key, value), the arguments being kept.
DoBindParameterKey(binding_key, value) ==
  /\ binding_key.kind \in {"str", "tuple"}
  /\ BoundKey(binding_key, value,
              BindParameter(CONFIG, REGISTRY, CONFIG_IS_LOCKED, binding_key,
                            value))

\* The step of a parse_config that gave the status and the store r.
Parsed(statements, skip_unknown, r) ==
  /\ NumBindings(r.config) <= MaxBindings
  /\ CONFIG' = r.config
  /\ last_op' = [Op("parse_config", r.status, CONFIG_IS_LOCKED) EXCEPT
                   !.statements = statements, !.skip_unknown = skip_unknown]
  /\ UNCHANGED <<threadVars, REGISTRY, CONFIG_IS_LOCKED, unlock_frames, invocations,
                 tableVars, selVars, scopeVars>>

\* gin.parse_config(bindings), bindings being parsed into `statements`.
DoParseConfig(statements) ==
  /\ Len(statements) <= MaxStatements
  /\ Parsed(statements, SkipBool(FALSE),
            ParseConfig(CONFIG, REGISTRY, CONFIG_IS_LOCKED, statements))

\* gin.parse_config(bindings, skip_unknown)
DoParseConfigSkip(statements, skip_unknown) ==
  /\ Len(statements) <= MaxStatements
  /\ Parsed(statements, skip_unknown,
            ParseConfigSkip(CONFIG, REGISTRY, CONFIG_IS_LOCKED, skip_unknown,
                            statements))

\* The step of a finalize() that gave the status, the store and the flag r.
Finalized(r) ==
  /\ NumBindings(r.config) <= MaxBindings
  /\ CONFIG' = r.config
  /\ CONFIG_IS_LOCKED' = r.locked
  /\ last_op' = Op("finalize", r.status, CONFIG_IS_LOCKED)
  /\ UNCHANGED <<threadVars, REGISTRY, unlock_frames, invocations, tableVars, selVars,
                 scopeVars>>

\* The step of a registration that gave the status and the registry r.
Registered(r) ==
  /\ Cardinality(DOMAIN r.registry.map) <= MaxConfigurables
  /\ REGISTRY' = r.registry
  /\ last_op' = Op("register", r.status, CONFIG_IS_LOCKED)
  /\ UNCHANGED <<threadVars, CONFIG, CONFIG_IS_LOCKED, unlock_frames, invocations,
                 tableVars, selVars, scopeVars>>

\* gin.configurable / gin.register / gin.external_configurable of fn, with
\* the given name and module arguments.
DoRegister(fn, name_arg, module_arg) ==
  /\ fn \in {"f", "g", "T", "d", "l", "n"}
  /\ Registered(MakeConfigurable(REGISTRY, CONFIG_IS_LOCKED, fn, name_arg,
                                 module_arg))

\* gin.clear_config(): the flag is cleared, the store, the singletons and
\* the operative config are emptied; the registry and the hooks are kept.
DoClearConfig ==
  /\ CONFIG_IS_LOCKED' = FALSE
  /\ CONFIG' = EmptyDict
  /\ SINGLETONS' = EmptyDict
  /\ OPERATIVE_CONFIG' = EmptyDict
  /\ last_op' = Op("clear_config", "ok", CONFIG_IS_LOCKED)
  /\ UNCHANGED <<threadVars, REGISTRY, unlock_frames, invocations, FINALIZE_HOOKS,
                 selVars, scopeVars>>

\* The step of a config_str, clear_config, parse_config(text) that gave the
\* status and the store r.
Reparsed(text, r) ==
  /\ CONFIG' = r.config
  /\ CONFIG_IS_LOCKED' = FALSE
  /\ SINGLETONS' = EmptyDict
  /\ OPERATIVE_CONFIG' = EmptyDict
  /\ last_op' = [Op("reparse", r.status, CONFIG_IS_LOCKED) EXCEPT
                   !.text = text, !.before = CONFIG]
  /\ UNCHANGED <<threadVars, REGISTRY, unlock_frames, invocations, FINALIZE_HOOKS,
                 selVars, scopeVars>>

\* text = gin.config_str(); gin.clear_config(); gin.parse_config(text)
DoReparseConfigStr ==
  /\ CONFIG_IS_LOCKED \in BOOLEAN
  /\ Reparsed(ConfigStr(CONFIG, REGISTRY),
              ParseConfigText(EmptyDict, REGISTRY, FALSE, SkipBool(FALSE),
                              ConfigStr(CONFIG, REGISTRY)))

\* ConfigurableReference.initialize: the scopes of the reference '@a/b/T'.
RefScopes(scoped_selector) ==
  SubSeq(Split(scoped_selector, "/"), 1, Len(Split(scoped_selector, "/")) - 1)

\* ConfigurableReference.initialize: the selector of the reference '@a/b/T'.
RefSelector(scoped_selector) ==
  Split(scoped_selector, "/")[Len(Split(scoped_selector, "/"))]

\* _decorate_with_scope: scoping_wrapper enters config_scope(scope_components)
\* around the configurable; without scope components the configurable's
\* wrapper is returned as it is and no scope is entered.
ScopingWrapperEnter(store, t, scope_components) ==
  IF scope_components # <<>>
  THEN EnterScope(store, t, NewScope(store, t, ListArg(scope_components)))
  ELSE store

\* scoping_wrapper: the with block is left, the configurable having returned
\* or raised.
ScopingWrapperExit(how, store, t, scope_components) ==
  IF scope_components # <<>> THEN ConfigScopeFinally(how, store, t) ELSE store

\* The configurable a reference stands for is running.
Invoking == last_op.op = "invoke"

\* d is called in the current scope and its gin_wrapper copies the
\* reference bound to d.x: the configurable of the reference is invoked,
\* through scoping_wrapper if the reference has scopes, and its gin_wrapper
\* collects the bindings of the scope that is then active.
InvokeReference(t) ==
  /\ ~Invoking
  /\ Sel_d \in DOMAIN REGISTRY.map
  /\ Str("x") \in DOMAIN GetBindings(CONFIG, Sel_d, CurrentScope(active_scopes, t))
  /\ GetBindings(CONFIG, Sel_d, CurrentScope(active_scopes, t))[Str("x")].kind = "ref"
  /\ active_scopes' = ScopingWrapperEnter(active_scopes, t,
       RefScopes(GetBindings(CONFIG, Sel_d,
                             CurrentScope(active_scopes, t))[Str("x")].sel))
  /\ last_op' = [Op("invoke", "ok", CONFIG_IS_LOCKED) EXCEPT
       !.scope = CurrentScope(active_scopes, t),
       !.selector = GetBindings(CONFIG, Sel_d,
                      CurrentScope(active_scopes, t))[Str("x")].sel,
       !.received = GetBindings(CONFIG,
                      GetMatch(REGISTRY, RefSelector(
                        GetBindings(CONFIG, Sel_d,
                          CurrentScope(active_scopes, t))[Str("x")].sel)).value.selector,
                      CurrentScope(active_scopes', t))]
  /\ UNCHANGED <<threadVars, frames, left, selVars, configVars>>

\* The configurable of the reference returns or raises, and with it
\* scoping_wrapper.
ReferenceReturns(t, how) ==
  /\ Invoking
  /\ active_scopes' = ScopingWrapperExit(how, active_scopes, t,
                                         RefScopes(last_op.selector))
  /\ last_op' = [last_op EXCEPT !.op = "invoked", !.status = how]
  /\ UNCHANGED <<threadVars, frames, left, selVars, configVars>>

\* singleton_value(key, constructor) run by thread t statement by statement,
\* the constructor being the wrapper of T, which is callable: other threads
\* run between the statements.  `if key not in _SINGLETONS`.
SingletonValueTest(t, key) ==
  /\ pc[t].at \in {"idle", "returned"}
  /\ pc' = [pc EXCEPT ![t] =
             [Idle EXCEPT !.key = key,
                          !.at = IF key \in DOMAIN SINGLETONS
                                 THEN "return" ELSE "construct"]]
  /\ last_op' = Op("singleton_test", "ok", CONFIG_IS_LOCKED)
  /\ UNCHANGED <<OPERATIVE_CONFIG_LOCK, selVars, scopeVars, configVars>>

\* constructor() of `_SINGLETONS[key] = constructor()`: T runs and returns
\* a new object.
SingletonValueConstruct(t) ==
  /\ pc[t].at = "construct"
  /\ invocations < MaxInvocations
  /\ invocations' = invocations + 1
  /\ pc' = [pc EXCEPT ![t].at = "store", ![t].obj = Obj(invocations')]
  /\ last_op' = Op("singleton_construct", "ok", CONFIG_IS_LOCKED)
  /\ UNCHANGED <<OPERATIVE_CONFIG_LOCK, REGISTRY, CONFIG, CONFIG_IS_LOCKED, unlock_frames,
                 tableVars, selVars, scopeVars>>

\* The assignment of `_SINGLETONS[key] = constructor()`.
SingletonValueStore(t) ==
  /\ pc[t].at = "store"
  /\ SINGLETONS' = DictSet(SINGLETONS, pc[t].key, pc[t].obj)
  /\ pc' = [pc EXCEPT ![t].at = "return"]
  /\ last_op' = Op("singleton_store", "ok", CONFIG_IS_LOCKED)
  /\ UNCHANGED <<OPERATIVE_CONFIG_LOCK, REGISTRY, CONFIG, CONFIG_IS_LOCKED, unlock_frames,
                 invocations, FINALIZE_HOOKS, OPERATIVE_CONFIG, selVars,
                 scopeVars>>

\* `return _SINGLETONS[key]`
SingletonValueReturn(t) ==
  /\ pc[t].at = "return"
  /\ pc' = [pc EXCEPT ![t].at = "returned",
                      ![t].result = SINGLETONS[pc[t].key]]
  /\ last_op' = Op("singleton_value", "ok", CONFIG_IS_LOCKED)
  /\ UNCHANGED <<OPERATIVE_CONFIG_LOCK, selVars, scopeVars, configVars>>

\* gin_wrapper, operative_config_str and clear_config run by thread t
\* statement by statement.  A thread is idle, or has returned from the last
\* function it ran.
AtRest(t) == pc[t].at \in {"idle", "returned"}

\* A lock that is acquired whether it is held or not.
CanAcquireAlways(lock) == TRUE

\* threading.Lock.acquire, which `with _OPERATIVE_CONFIG_LOCK:` calls, returns
\* once the lock is not held.
CanAcquire(lock) == ~lock

\* gin_wrapper up to its `with _OPERATIVE_CONFIG_LOCK:`: the bindings are
\* merged and operative_parameter_values is computed.
WrapperBegin(t, selector, fn, args, kwargs) ==
  /\ AtRest(t)
  /\ selector \in DOMAIN REGISTRY.map
  /\ pc' = [pc EXCEPT ![t] =
       [Idle EXCEPT
          !.at = "wrapper_acquire",
          !.key = <<Join(CurrentScope(active_scopes, t), "/"), selector>>,
          !.obj = OperativeParameterValues(REGISTRY, fn,
                    GetBindings(CONFIG, selector,
                                CurrentScope(active_scopes, t)),
                    args, kwargs)]]
  /\ active_scopes' = MaybeInit(active_scopes, t)
  /\ last_op' = [Op("wrapper_begin", "ok", CONFIG_IS_LOCKED) EXCEPT
                   !.args = args, !.kwargs = kwargs, !.selector = selector]
  /\ UNCHANGED <<OPERATIVE_CONFIG_LOCK, frames, left, selVars, configVars>>

\* `with _OPERATIVE_CONFIG_LOCK:` is entered by gin_wrapper ("wrapper"),
\* operative_config_str ("str") or clear_config ("clear").
LockEnter(t, fn, first) ==
  /\ pc[t].at = fn
  /\ CanAcquire(OPERATIVE_CONFIG_LOCK)
  /\ OPERATIVE_CONFIG_LOCK' = TRUE
  /\ pc' = [pc EXCEPT ![t].at = first]
  /\ last_op' = Op("acquire", "ok", CONFIG_IS_LOCKED)
  /\ UNCHANGED <<selVars, scopeVars, configVars>>

\* The `with _OPERATIVE_CONFIG_LOCK:` block is left and the function returns.
LockExit(t, last) ==
  /\ pc[t].at = last
  /\ OPERATIVE_CONFIG_LOCK' = FALSE
  /\ pc' = [pc EXCEPT ![t] = Idle]
  /\ last_op' = [Op("release", "ok", CONFIG_IS_LOCKED) EXCEPT
                   !.received = pc[t].result]
  /\ UNCHANGED <<selVars, scopeVars, configVars>>

\* op_cfg = _OPERATIVE_CONFIG.setdefault((scope_str, current_selector), {})
WrapperSetDefault(t) ==
  /\ pc[t].at = "wrapper_setdefault"
  /\ OPERATIVE_CONFIG' =
       IF pc[t].key \in DOMAIN OPERATIVE_CONFIG THEN OPERATIVE_CONFIG
       ELSE DictSet(OPERATIVE_CONFIG, pc[t].key, EmptyDict)
  /\ pc' = [pc EXCEPT ![t].at = "wrapper_update", ![t].in_table = TRUE]
  /\ last_op' = Op("setdefault", "ok", CONFIG_IS_LOCKED)
  /\ UNCHANGED <<OPERATIVE_CONFIG_LOCK, REGISTRY, CONFIG, CONFIG_IS_LOCKED,
                 unlock_frames, invocations, FINALIZE_HOOKS, SINGLETONS,
                 selVars, scopeVars>>

\* op_cfg.update(operative_parameter_values): op_cfg is the dict that
\* setdefault returned, which is in _OPERATIVE_CONFIG unless it was cleared
\* since.
WrapperUpdate(t) ==
  /\ pc[t].at = "wrapper_update"
  /\ OPERATIVE_CONFIG' =
       IF pc[t].in_table
       THEN OperativeUpdate(OPERATIVE_CONFIG, pc[t].key[1], pc[t].key[2],
                            pc[t].obj)
       ELSE OPERATIVE_CONFIG
  /\ pc' = [pc EXCEPT ![t].at = "wrapper_release"]
  /\ last_op' = Op("update", "ok", CONFIG_IS_LOCKED)
  /\ UNCHANGED <<OPERATIVE_CONFIG_LOCK, REGISTRY, CONFIG, CONFIG_IS_LOCKED,
                 unlock_frames, invocations, FINALIZE_HOOKS, SINGLETONS,
                 selVars, scopeVars>>

\* operative_config_str() is called.
OperativeConfigStrBegin(t) ==
  /\ AtRest(t)
  /\ pc' = [pc EXCEPT ![t] = [Idle EXCEPT !.at = "str_acquire"]]
  /\ last_op' = Op("operative_config_str", "ok", CONFIG_IS_LOCKED)
  /\ UNCHANGED <<OPERATIVE_CONFIG_LOCK, selVars, scopeVars, configVars>>

\* result = _config_str(_OPERATIVE_CONFIG, ...)
OperativeConfigStrRead(t) ==
  /\ pc[t].at = "str_read"
  /\ pc' = [pc EXCEPT ![t].at = "str_release",
                      ![t].result = OPERATIVE_CONFIG]
  /\ last_op' = Op("read", "ok", CONFIG_IS_LOCKED)
  /\ UNCHANGED <<OPERATIVE_CONFIG_LOCK, selVars, scopeVars, configVars>>

\* clear_config() up to its `with _OPERATIVE_CONFIG_LOCK:`.
ClearConfigBegin(t) ==
  /\ AtRest(t)
  /\ CONFIG_IS_LOCKED' = FALSE
  /\ CONFIG' = EmptyDict
  /\ SINGLETONS' = EmptyDict
  /\ pc' = [pc EXCEPT ![t] = [Idle EXCEPT !.at = "clear_acquire"]]
  /\ last_op' = Op("clear_begin", "ok", CONFIG_IS_LOCKED)
  /\ UNCHANGED <<OPERATIVE_CONFIG_LOCK, REGISTRY, unlock_frames, invocations,
                 FINALIZE_HOOKS, OPERATIVE_CONFIG, selVars, scopeVars>>

\* _OPERATIVE_CONFIG.clear(): the dicts that were in it are not in it any more.
ClearConfigOperative(t) ==
  /\ pc[t].at = "clear_operative"
  /\ OPERATIVE_CONFIG' = EmptyDict
  /\ pc' = [u \in Threads |->
             IF u = t THEN [pc[u] EXCEPT !.at = "clear_release"]
             ELSE [pc[u] EXCEPT !.in_table = pc[u].at # "wrapper_update"]]
  /\ last_op' = Op("clear_operative", "ok", CONFIG_IS_LOCKED)
  /\ UNCHANGED <<OPERATIVE_CONFIG_LOCK, REGISTRY, CONFIG, CONFIG_IS_LOCKED,
                 unlock_frames, invocations, FINALIZE_HOOKS, SINGLETONS,
                 selVars, scopeVars>>

\* unlock_config run by thread t statement by statement; config_was_locked
\* of the blocks the thread is inside of is the stack pc[t].config_was_locked.
\* `config_was_locked = config_is_locked()`
UnlockConfigRead(t) ==
  /\ pc[t].at = "idle"
  /\ Len(pc[t].config_was_locked) < MaxUnlockDepth
  /\ pc' = [pc EXCEPT ![t].at = "unlock_set",
                      ![t].config_was_locked = Append(@, CONFIG_IS_LOCKED)]
  /\ last_op' = Op("unlock_read", "ok", CONFIG_IS_LOCKED)
  /\ UNCHANGED <<OPERATIVE_CONFIG_LOCK, selVars, scopeVars, configVars>>

\* `_set_config_is_locked(False); yield`: the body of the block starts.
UnlockConfigSet(t) ==
  /\ pc[t].at = "unlock_set"
  /\ CONFIG_IS_LOCKED' = FALSE
  /\ pc' = [pc EXCEPT ![t].at = "idle"]
  /\ last_op' = Op("unlock_enter", "ok", CONFIG_IS_LOCKED)
  /\ UNCHANGED <<OPERATIVE_CONFIG_LOCK, REGISTRY, CONFIG, unlock_frames,
                 invocations, tableVars, selVars, scopeVars>>

\* The body of the innermost block of thread t returns:
\* `_set_config_is_locked(config_was_locked)`.
UnlockConfigRestore(t) ==
  /\ pc[t].at = "idle"
  /\ pc[t].config_was_locked # <<>>
  /\ CONFIG_IS_LOCKED' =
       UnlockConfigExit("return", CONFIG_IS_LOCKED,
         pc[t].config_was_locked[Len(pc[t].config_was_locked)])
  /\ pc' = [pc EXCEPT ![t].config_was_locked = SubSeq(@, 1, Len(@) - 1)]
  /\ last_op' = [Op("unlock_exit", "return", CONFIG_IS_LOCKED) EXCEPT
                   !.saved = pc[t].config_was_locked[Len(pc[t].config_was_locked)]]
  /\ UNCHANGED <<OPERATIVE_CONFIG_LOCK, REGISTRY, CONFIG, unlock_frames,
                 invocations, tableVars, selVars, scopeVars>>

\* No thread is inside unlock_config.
NoneUnlocking ==
  \A t \in Threads : pc[t].at = "idle" /\ pc[t].config_was_locked = <<>>

\* bind_parameter and finalize run by thread t statement by statement.
\* `if config_is_locked(): raise RuntimeError(...)` of bind_parameter.
BindParameterTest(t, binding_key, value) ==
  /\ pc[t].at = "idle"
  /\ pc' = IF CONFIG_IS_LOCKED THEN pc
           ELSE [pc EXCEPT ![t].at = "bind_write", ![t].key = binding_key,
                           ![t].obj = value]
  /\ last_op' = [Op("bind_test",
                    IF CONFIG_IS_LOCKED THEN "RuntimeError" ELSE "ok",
                    CONFIG_IS_LOCKED)
                 EXCEPT !.key = binding_key, !.value = value]
  /\ UNCHANGED <<OPERATIVE_CONFIG_LOCK, selVars, scopeVars, configVars>>

\* The rest of bind_parameter, which has found the config unlocked: the key
\* is parsed and the value is written.
BindParameterWrite(t) ==
  /\ pc[t].at = "bind_write"
  /\ NumBindings(BindParameter(CONFIG, REGISTRY, FALSE, pc[t].key,
                               pc[t].obj).config) <= MaxBindings
  /\ CONFIG' = BindParameter(CONFIG, REGISTRY, FALSE, pc[t].key,
                             pc[t].obj).config
  /\ pc' = [pc EXCEPT ![t] = Idle]
  /\ last_op' = [Op("bind_write",
                    BindParameter(CONFIG, REGISTRY, FALSE, pc[t].key,
                                  pc[t].obj).status,
                    CONFIG_IS_LOCKED)
                 EXCEPT !.key = pc[t].key, !.value = pc[t].obj,
                        !.before = CONFIG]
  /\ UNCHANGED <<OPERATIVE_CONFIG_LOCK, REGISTRY, CONFIG_IS_LOCKED,
                 unlock_frames, invocations, tableVars, selVars, scopeVars>>

\* `if config_is_locked(): raise RuntimeError(...)` of finalize.
FinalizeTest(t) ==
  /\ pc[t].at = "idle"
  /\ pc' = IF CONFIG_IS_LOCKED THEN pc
           ELSE [pc EXCEPT ![t].at = "finalize_hooks"]
  /\ last_op' = Op("finalize_test",
                   IF CONFIG_IS_LOCKED THEN "RuntimeError" ELSE "ok",
                   CONFIG_IS_LOCKED)
  /\ UNCHANGED <<OPERATIVE_CONFIG_LOCK, selVars, scopeVars, configVars>>

\* The hooks of finalize, which has found the config unlocked, are run and
\* what they return is bound: a hook that raises ends finalize.
FinalizeHooks(t) ==
  /\ pc[t].at = "finalize_hooks"
  /\ CONFIG' = Finalize(CONFIG, REGISTRY, FALSE, FINALIZE_HOOKS).config
  /\ pc' = [pc EXCEPT ![t].at =
             IF Finalize(CONFIG, REGISTRY, FALSE, FINALIZE_HOOKS).status = "ok"
             THEN "finalize_lock" ELSE "idle"]
  /\ last_op' = Op("finalize_hooks",
                   Finalize(CONFIG, REGISTRY, FALSE, FINALIZE_HOOKS).status,
                   CONFIG_IS_LOCKED)
  /\ UNCHANGED <<OPERATIVE_CONFIG_LOCK, REGISTRY, CONFIG_IS_LOCKED,
                 unlock_frames, invocations, tableVars, selVars, scopeVars>>

\* `_set_config_is_locked(True)` of finalize.
FinalizeLock(t) ==
  /\ pc[t].at = "finalize_lock"
  /\ CONFIG_IS_LOCKED' = TRUE
  /\ pc' = [pc EXCEPT ![t].at = "idle"]
  /\ last_op' = Op("finalize_lock", "ok", CONFIG_IS_LOCKED)
  /\ UNCHANGED <<OPERATIVE_CONFIG_LOCK, REGISTRY, CONFIG, unlock_frames,
                 invocations, tableVars, selVars, scopeVars>>

\* The evaluation of a macro that looks at the bindings of the scope named
\* like the macro only.
MacroValueExact(cfg, name) ==
  IF <<name, Sel_macro>> \in DOMAIN cfg
  THEN [status |-> "ok",
        value |-> cfg[<<name, Sel_macro>>][<<"v", "a", "l", "u", "e">>]]
  ELSE [status |-> "TypeError", value |-> REQUIRED]

\* The evaluation of the reference that %name parses to, name/gin.macro with
\* evaluate=True: the scopes of the reference are the components of the
\* name, and the gin_wrapper of macro, run in that scope, gives macro the
\* bindings it merges; macro returns its `value`, and without one Python
\* raises TypeError.
MacroValue(cfg, name) ==
  IF GinWrapper(cfg, Sel_macro, "macro",
                RefScopes(name \o <<"/">> \o Sel_macro), <<>>, <<>>,
                0).status = "ok"
  THEN [status |-> "ok",
        value |-> GinWrapper(cfg, Sel_macro, "macro",
                    RefScopes(name \o <<"/">> \o Sel_macro), <<>>, <<>>,
                    0).received[<<"v", "a", "l", "u", "e">>]]
  ELSE [status |-> GinWrapper(cfg, Sel_macro, "macro",
                     RefScopes(name \o <<"/">> \o Sel_macro), <<>>, <<>>,
                     0).status,
        value |-> REQUIRED]

\* copy.deepcopy, by thread t, of the value that %name parsed to, as
\* gin_wrapper copies the bindings of a call: the scoping wrapper enters the
\* scopes of the reference, macro's gin_wrapper records the call and runs
\* macro, and the scope of the thread is restored.
DoEvaluateMacro(t, name) ==
  /\ active_scopes' =
       ScopingWrapperExit(MacroValue(CONFIG, name).status,
         ScopingWrapperEnter(active_scopes, t,
           RefScopes(name \o <<"/">> \o Sel_macro)),
         t, RefScopes(name \o <<"/">> \o Sel_macro))
  /\ OPERATIVE_CONFIG' =
       OperativeCall(CONFIG, REGISTRY, OPERATIVE_CONFIG, Sel_macro, "macro",
                     RefScopes(name \o <<"/">> \o Sel_macro), <<>>, <<>>)
  /\ last_op' = [Op("macro", MacroValue(CONFIG, name).status,
                    CONFIG_IS_LOCKED)
                 EXCEPT !.selector = name,
                        !.value = MacroValue(CONFIG, name).value]
  /\ UNCHANGED <<threadVars, REGISTRY, CONFIG, CONFIG_IS_LOCKED,
                 unlock_frames, invocations, FINALIZE_HOOKS, SINGLETONS,
                 frames, left, selVars>>

\* gin.finalize()
DoFinalize ==
  /\ CONFIG_IS_LOCKED \in BOOLEAN
  /\ Finalized(Finalize(CONFIG, REGISTRY, CONFIG_IS_LOCKED, FINALIZE_HOOKS))

\* gin.register_finalize_hook(fn), for a hook that returns the bindings
\* new_bindings whatever the config.
DoRegisterFinalizeHook(new_bindings) ==
  /\ Len(FINALIZE_HOOKS) < MaxHooks
  /\ FINALIZE_HOOKS' = Append(FINALIZE_HOOKS, new_bindings)
  /\ last_op' = Op("register_finalize_hook", "ok", CONFIG_IS_LOCKED)
  /\ UNCHANGED <<threadVars, REGISTRY, CONFIG, CONFIG_IS_LOCKED, unlock_frames,
                 invocations, OPERATIVE_CONFIG, SINGLETONS, selVars,
                 scopeVars>>

\* with gin.unlock_config(): the block is entered.
UnlockConfigEnter ==
  /\ Len(unlock_frames) < MaxUnlockDepth
  /\ unlock_frames' = Append(unlock_frames, CONFIG_IS_LOCKED)
  /\ CONFIG_IS_LOCKED' = FALSE
  /\ last_op' = Op("unlock_enter", "ok", CONFIG_IS_LOCKED)
  /\ UNCHANGED <<threadVars, REGISTRY, CONFIG, invocations, tableVars, selVars,
                 scopeVars>>

\* The innermost unlock_config block is left: its body returns or raises.
UnlockConfigLeave(how) ==
  /\ unlock_frames # <<>>
  /\ CONFIG_IS_LOCKED' = UnlockConfigExit(how, CONFIG_IS_LOCKED,
                                          unlock_frames[Len(unlock_frames)])
  /\ unlock_frames' = SubSeq(unlock_frames, 1, Len(unlock_frames) - 1)
  /\ last_op' = [Op("unlock_exit", how, CONFIG_IS_LOCKED) EXCEPT
                   !.saved = unlock_frames[Len(unlock_frames)]]
  /\ UNCHANGED <<threadVars, REGISTRY, CONFIG, invocations, tableVars, selVars,
                 scopeVars>>

\* The step of a call by thread t of which gin_wrapper gave the outcome r
\* and left the operative config `operative`.
Called(t, selector, args, kwargs, r, operative) ==
  /\ invocations + r.invoked <= MaxInvocations
  /\ OPERATIVE_CONFIG' = operative
  /\ invocations' = invocations + r.invoked
  /\ active_scopes' = MaybeInit(active_scopes, t)
  /\ last_op' = [NoOp EXCEPT !.op = "call", !.status = r.status,
                   !.locked = CONFIG_IS_LOCKED, !.selector = selector,
                   !.scope = CurrentScope(active_scopes, t),
                   !.args = args, !.kwargs = kwargs,
                   !.called = r.called, !.received = r.received,
                   !.missing = r.missing, !.invoked = r.invoked]
  /\ SINGLETONS' = r.singletons
  /\ UNCHANGED <<threadVars, REGISTRY, CONFIG, CONFIG_IS_LOCKED, unlock_frames,
                 FINALIZE_HOOKS, frames, left, selVars>>

\* Thread t calls the configurable fn registered under selector:
\* fn(*args, **kwargs).
DoCallOf(t, selector, fn, args, kwargs) ==
  /\ t \in Threads
  /\ Called(t, selector, args, kwargs,
            GinWrapperSingletons(CONFIG, SINGLETONS, selector, fn,
                                 CurrentScope(active_scopes, t), args,
                                 kwargs, invocations),
            OperativeAfter(CONFIG, REGISTRY, SINGLETONS, OPERATIVE_CONFIG,
                           selector, fn, CurrentScope(active_scopes, t),
                           args, kwargs, invocations))

\* Thread t calls the configurable f: f(*args, **kwargs).
DoCall(t, args, kwargs) == DoCallOf(t, Sel_f, "f", args, kwargs)

\* Thread t calls the configurable d: d(*args, **kwargs).
DoCallD(t, args, kwargs) ==
  /\ Sel_d \in DOMAIN REGISTRY.map
  /\ DoCallOf(t, Sel_d, "d", args, kwargs)

\* No configurable ran since the config was last cleared: the program is
\* still being configured.
Configuring == OPERATIVE_CONFIG = EmptyDict

\* 'f.x', 'a/f.x' and the tuple ('a', 'a.f', 'y'); 'h.x' names no
\* configurable, 'f.z' no parameter.
LockBindingKeys ==
  {KeyStr(<<"f", ".", "x">>), KeyStr(<<"a", "/", "f", ".", "x">>),
   KeyTuple(Str("a"), Sel_f, Str("y")),
   KeyStr(<<"h", ".", "x">>), KeyStr(<<"f", ".", "z">>)}

\* f.x = 1, the macro m = 1, and h.x = 1 for an unknown h.
LockStatements ==
  {Statement(<<>>, Str("f"), Str("x"), Lit(1)),
   Statement(<<>>, Str("m"), <<>>, Lit(1)),
   Statement(<<>>, Str("h"), Str("x"), Lit(1))}

\* The sequences of 1..n statements.
RECURSIVE StatementSeqs(_)
StatementSeqs(n) ==
  IF n = 0 THEN {<<>>}
  ELSE StatementSeqs(n - 1) \cup
       {Append(s, st) : s \in StatementSeqs(n - 1), st \in LockStatements}

\* The texts of 1..MaxStatements statements; a text of more than two
\* statements opens with one statement written twice.
LockTexts ==
  {s \in StatementSeqs(MaxStatements) \ {<<>>} : Len(s) > 2 => s[1] = s[2]}

\* g registered as b.g, as b.f, as a.f (taken), as '4g' and in module 'b.'.
Registrations ==
  {<<"g", None, None>>, <<"g", Some(Str("f")), Some(Str("b"))>>,
   <<"g", Some(Sel_f), None>>, <<"g", Some(<<"4", "g">>), None>>,
   <<"g", None, Some(<<"b", ".">>)>>}

\* f.x = 1 or 2, a/f.x = 1 or 2, a/b/f.x = 2 and f.y = 2.
CallBindings ==
  {<<KeyStr(<<"f", ".", "x">>), Lit(1)>>,
   <<KeyStr(<<"f", ".", "x">>), Lit(2)>>,
   <<KeyStr(<<"a", "/", "f", ".", "x">>), Lit(1)>>,
   <<KeyStr(<<"a", "/", "f", ".", "x">>), Lit(2)>>,
   <<KeyStr(<<"a", "/", "b", "/", "f", ".", "x">>), Lit(2)>>,
   <<KeyStr(<<"f", ".", "y">>), Lit(2)>>}

\* The calls f(), f(REQUIRED), f(x=9), f(x=REQUIRED), f(y=9), f(y=REQUIRED),
\* f(REQUIRED, REQUIRED), f(9, y=9), f(y=REQUIRED, x=REQUIRED) and
\* f(x=9, y=9).
CallInputs ==
  {<< <<>>, <<>> >>, << <<REQUIRED>>, <<>> >>,
   << <<>>, << <<Str("x"), Lit(9)>> >> >>,
   << <<>>, << <<Str("x"), REQUIRED>> >> >>,
   << <<>>, << <<Str("y"), Lit(9)>> >> >>,
   << <<>>, << <<Str("y"), REQUIRED>> >> >>,
   << <<REQUIRED, REQUIRED>>, <<>> >>,
   << <<Lit(9)>>, << <<Str("y"), Lit(9)>> >> >>,
   << <<>>, << <<Str("y"), REQUIRED>>, <<Str("x"), REQUIRED>> >> >>,
   << <<>>, << <<Str("x"), Lit(9)>>, <<Str("y"), Lit(9)>> >> >>}

NextCall ==
  \/ Configuring /\ \E b \in CallBindings : DoBindParameter(b[1], b[2])
  \/ Configuring /\ \E arg \in {StrArg(<<"a">>), StrArg(<<"b">>)} :
                       ConfigScopeEnter(MainThread, arg)
  \/ Configuring /\ ConfigScopeExit(MainThread, "return")
  \/ \E c \in CallInputs : DoCall(MainThread, c[1], c[2])

\* f.x = @a.T(), f.x = @a.T, f.x = 1, and the same for a/f.x.
RefStatements ==
  {Statement(sc, Str("f"), Str("x"), v) :
     sc \in {<<>>, Str("a")},
     v \in {Ref(Sel_T, TRUE), Ref(Sel_T, FALSE), Lit(1)}}

\* The calls f(y=9), f(9, y=9), f(REQUIRED, y=9) and f(x=9, y=9).
RefCallInputs ==
  {<< <<>>, << <<Str("y"), Lit(9)>> >> >>,
   << <<Lit(9)>>, << <<Str("y"), Lit(9)>> >> >>,
   << <<REQUIRED>>, << <<Str("y"), Lit(9)>> >> >>,
   << <<>>, << <<Str("x"), Lit(9)>>, <<Str("y"), Lit(9)>> >> >>}

NextRef ==
  \/ Configuring /\ \E st \in RefStatements : DoParseConfig(<<st>>)
  \/ Configuring /\ ConfigScopeEnter(MainThread, StrArg(<<"a">>))
  \/ Configuring /\ ConfigScopeExit(MainThread, "return")
  \/ \E c \in RefCallInputs : DoCall(MainThread, c[1], c[2])

\* f.x = @h() and a/f.x = @h for an h that no module registers; f.x = 1,
\* and k.x = 1 for a k that no module registers.
UnknownRefStatements ==
  {Statement(<<>>, Str("f"), Str("x"), Ref(Str("h"), TRUE)),
   Statement(Str("a"), Str("f"), Str("x"), Ref(Str("h"), FALSE)),
   Statement(<<>>, Str("f"), Str("x"), Lit(1)),
   Statement(<<>>, Str("k"), Str("x"), Lit(1))}

\* The calls f(y=9), f(9, y=9) and f(x=9, y=9).
UnknownRefCallInputs ==
  {<< <<>>, << <<Str("y"), Lit(9)>> >> >>,
   << <<Lit(9)>>, << <<Str("y"), Lit(9)>> >> >>,
   << <<>>, << <<Str("x"), Lit(9)>>, <<Str("y"), Lit(9)>> >> >>}

\* skip_unknown=False, True, ['h'] and ['k'].
SkipInputs ==
  {SkipBool(FALSE), SkipBool(TRUE), SkipList({Str("h")}), SkipList({Str("k")})}

NextUnknownRef ==
  \/ Configuring /\ \E st \in UnknownRefStatements, skip_unknown \in SkipInputs :
                       DoParseConfigSkip(<<st>>, skip_unknown)
  \/ Configuring /\ \E k \in {KeyStr(<<"f", ".", "x">>),
                              KeyStr(<<"a", "/", "f", ".", "x">>)} :
                       DoBindParameter(k, Lit(2))
  \/ Configuring /\ ConfigScopeEnter(MainThread, StrArg(<<"a">>))
  \/ Configuring /\ ConfigScopeExit(MainThread, "return")
  \/ \E c \in UnknownRefCallInputs : DoCall(MainThread, c[1], c[2])
  \/ DoFinalize
  \/ DoClearConfig

\* 'singleton' and 'k/singleton'
Ref_singleton == <<"s", "i", "n", "g", "l", "e", "t", "o", "n">>
Ref_k_singleton == <<"k", "/">> \o Ref_singleton

\* singleton.constructor = @a.T and k/singleton.constructor = 1, which is
\* not callable; f.x = @k/singleton(), f.x = @singleton(), whose key is the
\* scope of the call, and f.y = @k/singleton().
SingletonStatements ==
  {Statement(<<>>, Ref_singleton, ConstructorParam, Ref(Sel_T, FALSE)),
   Statement(Str("k"), Ref_singleton, ConstructorParam, Lit(1)),
   Statement(<<>>, Str("f"), Str("x"), Ref(Ref_k_singleton, TRUE)),
   Statement(<<>>, Str("f"), Str("x"), Ref(Ref_singleton, TRUE)),
   Statement(<<>>, Str("f"), Str("y"), Ref(Ref_k_singleton, TRUE))}

\* The calls f(), f(9) and f(y=9).
SingletonCallInputs ==
  {<< <<>>, <<>> >>, << <<Lit(9)>>, <<>> >>,
   << <<>>, << <<Str("y"), Lit(9)>> >> >>}

NextSingleton ==
  \/ \E st \in SingletonStatements : DoParseConfig(<<st>>)
  \/ \E c \in SingletonCallInputs : DoCall(MainThread, c[1], c[2])
  \/ DoClearConfig

\* The keys under which the threads ask for a singleton.
SingletonKeys == {Str("k"), Str("j")}

NextSingletonThreads ==
  \/ \E t \in Threads, key \in SingletonKeys : SingletonValueTest(t, key)
  \/ \E t \in Threads : SingletonValueConstruct(t)
  \/ \E t \in Threads : SingletonValueStore(t)
  \/ \E t \in Threads : SingletonValueReturn(t)

\* The calls d(9) and d(y=9), and f().
ThreadCallInputs ==
  {<<Sel_d, "d", <<Lit(9)>>, <<>> >>,
   <<Sel_d, "d", <<>>, << <<Str("y"), Lit(9)>> >> >>,
   <<Sel_f, "f", <<>>, <<>> >>}

NextOperativeThreads ==
  \/ Configuring /\ DoRegister("d", None, None)
  \/ Configuring /\ DoBindParameter(KeyStr(<<"d", ".", "x">>), Lit(1))
  \/ \E t \in Threads :
       /\ AtRest(t) /\ Configuring /\ frames[t] = <<>>
       /\ ConfigScopeEnter(t, StrArg(<<"a">>))
  \/ \E t \in Threads, c \in ThreadCallInputs :
       WrapperBegin(t, c[1], c[2], c[3], c[4])
  \/ \E t \in Threads : LockEnter(t, "wrapper_acquire", "wrapper_setdefault")
  \/ \E t \in Threads : WrapperSetDefault(t)
  \/ \E t \in Threads : WrapperUpdate(t)
  \/ \E t \in Threads : LockExit(t, "wrapper_release")
  \/ \E t \in Threads : OperativeConfigStrBegin(t)
  \/ \E t \in Threads : LockEnter(t, "str_acquire", "str_read")
  \/ \E t \in Threads : OperativeConfigStrRead(t)
  \/ \E t \in Threads : LockExit(t, "str_release")
  \/ \E t \in Threads : ClearConfigBegin(t)
  \/ \E t \in Threads : LockEnter(t, "clear_acquire", "clear_operative")
  \/ \E t \in Threads : ClearConfigOperative(t)
  \/ \E t \in Threads : LockExit(t, "clear_release")

\* The config is finalized while no thread is inside unlock_config, and
\* unlock_config blocks are entered once it is locked.
NextUnlockThreads ==
  \/ NoneUnlocking /\ DoFinalize
  \/ \E t \in Threads :
       (CONFIG_IS_LOCKED \/ ~NoneUnlocking) /\ UnlockConfigRead(t)
  \/ \E t \in Threads : UnlockConfigSet(t)
  \/ \E t \in Threads : UnlockConfigRestore(t)
  \/ \E t \in Threads :
       /\ pc[t].at = "idle" /\ pc[t].config_was_locked # <<>>
       /\ DoBindParameter(KeyStr(<<"f", ".", "x">>), Lit(1))

\* 'f.x', 'a/f.x' and 'h.x', which names no configurable.
ThreadBindingKeys ==
  {KeyStr(<<"f", ".", "x">>), KeyStr(<<"a", "/", "f", ".", "x">>),
   KeyStr(<<"h", ".", "x">>)}

NextBindThreads ==
  \/ \E t \in Threads, k \in ThreadBindingKeys, v \in {Lit(1), Lit(2)} :
       BindParameterTest(t, k, v)
  \/ \E t \in Threads : BindParameterWrite(t)
  \/ \E t \in Threads : FinalizeTest(t)
  \/ \E t \in Threads : FinalizeHooks(t)
  \/ \E t \in Threads : FinalizeLock(t)
  \/ (\A t \in Threads : pc[t].at = "idle") /\ DoClearConfig

\* f.x = 1, f.x = 2, a/f.x = 1, the macro m = 1, and h.x = 1 for an unknown
\* h.
ParseStatements ==
  {Statement(<<>>, Str("f"), Str("x"), Lit(1)),
   Statement(<<>>, Str("f"), Str("x"), Lit(2)),
   Statement(Str("a"), Str("f"), Str("x"), Lit(1)),
   Statement(<<>>, Str("m"), <<>>, Lit(1)),
   Statement(<<>>, Str("h"), Str("x"), Lit(1))}

\* Texts of three statements: the last raises; the second raises, f having
\* no parameter z; the second raises, its value being a reference to an
\* unknown h.
LongTexts ==
  {<<Statement(<<>>, Str("f"), Str("x"), Lit(1)),
     Statement(<<>>, Str("f"), Str("x"), Lit(2)),
     Statement(<<>>, Str("h"), Str("x"), Lit(1))>>,
   <<Statement(<<>>, Str("f"), Str("x"), Lit(1)),
     Statement(<<>>, Str("f"), Str("z"), Lit(1)),
     Statement(<<>>, Str("f"), Str("x"), Lit(2))>>,
   <<Statement(<<>>, Str("m"), <<>>, Lit(1)),
     Statement(<<>>, Str("f"), Str("x"), Ref(Str("h"), FALSE)),
     Statement(Str("a"), Str("f"), Str("x"), Lit(1))>>}

\* The texts of one or two of the statements, and those of three.
ParseTexts ==
  {<<st>> : st \in ParseStatements}
    \cup {<<st, su>> : st \in ParseStatements, su \in ParseStatements}
    \cup LongTexts

NextParse ==
  \/ \E sts \in ParseTexts : DoParseConfig(sts)
  \/ DoFinalize
  \/ DoClearConfig

\* What the hooks of the program return: f.x = 5; f.x = 6; f.y = 8 and
\* a/f.x = 9; h.x = 1 for an unknown h; a.f.x = 7.
FinalizeHookInputs ==
  { << <<KeyStr(<<"f", ".", "x">>), Lit(5)>> >>,
    << <<KeyStr(<<"f", ".", "x">>), Lit(6)>> >>,
    << <<KeyStr(<<"f", ".", "y">>), Lit(8)>>,
       <<KeyStr(<<"a", "/", "f", ".", "x">>), Lit(9)>> >>,
    << <<KeyStr(<<"h", ".", "x">>), Lit(1)>> >>,
    << <<KeyStr(<<"a", ".", "f", ".", "x">>), Lit(7)>> >> }

\* f.x = 1, and f.x = @m/gin.macro, at which validate_macros_hook raises.
FinalizeBindings == {Lit(1), Ref(<<"m", "/">> \o Sel_macro, FALSE)}

NextFinalize ==
  \/ \E h \in FinalizeHookInputs : DoRegisterFinalizeHook(h)
  \/ DoFinalize
  \/ \E v \in FinalizeBindings : DoBindParameter(KeyStr(<<"f", ".", "x">>), v)
  \/ DoClearConfig

NextLock ==
  \/ \E k \in LockBindingKeys, v \in {Lit(1), Lit(2)} : DoBindParameter(k, v)
  \/ \E sts \in LockTexts : DoParseConfig(sts)
  \/ \E r \in Registrations : DoRegister(r[1], r[2], r[3])
  \/ DoClearConfig
  \/ DoFinalize
  \/ UnlockConfigEnter
  \/ \E how \in {"return", "raise"} : UnlockConfigLeave(how)

-----------------------------------------------------------------------------
(* The state after `import gin`, and the specifications                    *)

Init ==
  /\ InitSelectorMap
  /\ InitScopes
  /\ InitConfig
  /\ InitThreads

\* A SelectorMap built by insertions.
SpecSelectorMap == Init /\ [][NextSelectorMap]_vars

\* One thread entering and leaving config_scope blocks.
SpecScope == Init /\ [][NextScope]_vars

\* Several threads entering and leaving config_scope blocks, interleaved.
SpecScopeThreads == Init /\ [][NextScopeThreads]_vars

\* A SelectorMap with insertions, insertions again and clear.
SpecSelectorClear == Init /\ [][NextSelectorClear]_vars

\* A SelectorMap with insertions, removals and renamed methods.
SpecSelectorPop == Init /\ [][NextSelectorPop]_vars

\* Binding, parsing, registering, clearing, finalizing and unlocking.
SpecLock == Init /\ [][NextLock]_vars

\* Calls of the configurable f in scopes, with literals bound.
SpecCall == Init /\ [][NextCall]_vars

\* Calls of the configurable f, with references to the configurable T bound.
SpecRef == Init /\ [][NextRef]_vars

\* The keys and values bound before the store is rendered: parameters of f
\* and macros, with numbers, references, macros, the sentinel and objects.
Key_m == KeyStr(<<"m", "/", "g", "i", "n", ".", "m", "a", "c", "r", "o", ".",
                  "v", "a", "l", "u", "e">>)
Key_root_macro == KeyStr(<<"g", "i", "n", ".", "m", "a", "c", "r", "o", ".",
                           "v", "a", "l", "u", "e">>)
RenderBindings ==
  { <<KeyStr(<<"f", ".", "x">>), Lit(1)>>,
    <<KeyStr(<<"a", "/", "f", ".", "y">>), Lit(12)>>,
    <<KeyStr(<<"a", "/", "f", ".", "x">>), Lit(2)>>,
    <<KeyStr(<<"f", ".", "y">>), Lit(30)>>,
    <<KeyStr(<<"f", ".", "x">>), Ref(<<"a", ".", "T">>, FALSE)>>,
    <<KeyStr(<<"f", ".", "y">>), Ref(<<"m", "/", "g", "i", "n", ".", "m", "a",
                                       "c", "r", "o">>, TRUE)>>,
    <<KeyStr(<<"f", ".", "x">>), REQUIRED>>,
    <<KeyStr(<<"f", ".", "y">>), Obj(0)>>,
    <<Key_m, Lit(5)>>,
    <<Key_m, Obj(0)>>,
    <<Key_root_macro, Lit(5)>> }

NextRender ==
  \/ \E b \in RenderBindings : DoBindParameter(b[1], b[2])
  \/ DoReparseConfigStr
  \/ DoClearConfig

\* Binding, and rendering the store and parsing the text back.
SpecRender == Init /\ [][NextRender]_vars

\* The bindings that the finalize hooks of the program return: one hook
\* names f.x, one names it module-qualified, one names f.x again, and two
\* name other parameters.
HookInputs ==
  { << <<KeyStr(<<"f", ".", "x">>), Lit(5)>> >>,
    << <<KeyStr(<<"a", ".", "f", ".", "x">>), Lit(7)>> >>,
    << <<KeyStr(<<"f", ".", "x">>), Lit(6)>> >>,
    << <<KeyStr(<<"f", ".", "y">>), Lit(8)>> >>,
    << <<KeyStr(<<"a", "/", "f", ".", "x">>), Lit(9)>> >> }

NextHooks ==
  \/ \E h \in HookInputs : DoRegisterFinalizeHook(h)
  \/ DoFinalize
  \/ DoBindParameter(KeyStr(<<"f", ".", "x">>), Lit(1))
  \/ DoClearConfig

\* The macros a = 4, a/b = 5 and b = 6.
MacroStatements ==
  {Statement(<<>>, Str("a"), <<>>, Lit(4)),
   Statement(Str("a"), Str("b"), <<>>, Lit(5)),
   Statement(<<>>, Str("b"), <<>>, Lit(6))}

\* The names a, b, a/b and a/b/c.
MacroNames ==
  {Str("a"), Str("b"), <<"a", "/", "b">>, <<"a", "/", "b", "/", "c">>}

NextMacro ==
  \/ \E st \in MacroStatements : DoParseConfig(<<st>>)
  \/ DoBindParameter(Key_root_macro, Lit(7))
  \/ \E name \in MacroNames : DoEvaluateMacro(MainThread, name)
  \/ DoClearConfig

\* Macros are bound and evaluated.
SpecMacro == Init /\ [][NextMacro]_vars

\* Finalize hooks are registered and finalize runs them.
SpecHooks == Init /\ [][NextHooks]_vars

\* d.x = 1 or 2 and d.y = 4.
OperativeBindings ==
  {<<KeyStr(<<"d", ".", "x">>), Lit(1)>>,
   <<KeyStr(<<"d", ".", "x">>), Lit(2)>>,
   <<KeyStr(<<"d", ".", "y">>), Lit(4)>>}

\* The calls d(), d(9), d(y=9), d(REQUIRED) and d(9, y=9).
OperativeCallInputs ==
  {<< <<>>, <<>> >>, << <<Lit(9)>>, <<>> >>,
   << <<>>, << <<Str("y"), Lit(9)>> >> >>,
   << <<REQUIRED>>, <<>> >>,
   << <<Lit(9)>>, << <<Str("y"), Lit(9)>> >> >>}

NextOperative ==
  \/ DoRegister("d", None, None)
  \/ \E b \in OperativeBindings : DoBindParameter(b[1], b[2])
  \/ Configuring /\ ConfigScopeEnter(MainThread, StrArg(<<"a">>))
  \/ Configuring /\ ConfigScopeExit(MainThread, "return")
  \/ \E c \in OperativeCallInputs : DoCallD(MainThread, c[1], c[2])
  \/ DoCall(MainThread, <<>>, << <<Str("y"), Lit(9)>> >>)
  \/ DoClearConfig

\* Calls of d and f under one scope, between which the bindings change.
SpecOperative == Init /\ [][NextOperative]_vars

\* The binding keys of the allowlist and denylist tests, and keys for a
\* selector that becomes ambiguous, an unknown selector and a parameter that
\* the signature does not have.
BindKeys ==
  {KeyStr(<<"f", ".", "x">>),
   KeyStr(<<"g", ".", "x">>),
   KeyStr(<<"T", ".", "x">>),
   KeyStr(<<"l", ".", "x">>),
   KeyStr(<<"l", ".", "y">>),
   KeyStr(<<"a", "/", "l", ".", "y">>),
   KeyStr(<<"n", ".", "y">>),
   KeyStr(<<"n", ".", "x">>),
   KeyTuple(Str("a"), Str("n"), Str("x"))}

\* The texts given to parse_config: 'l.x = 1\nl.y = 2' and the like.
BindStatements ==
  {<<Statement(<<>>, Str("l"), Str("x"), Lit(1)),
     Statement(<<>>, Str("l"), Str("y"), Lit(2))>>,
   <<Statement(<<>>, Str("n"), Str("y"), Lit(1)),
     Statement(<<>>, Str("n"), Str("x"), Lit(2))>>,
   <<Statement(<<>>, Str("l"), Str("x"), Lit(2)),
     Statement(<<>>, Str("g"), Str("x"), Lit(1))>>,
   <<Statement(<<>>, Str("f"), Str("x"), Lit(1))>>,
   <<Statement(<<>>, Str("T"), Str("x"), Lit(1))>>}

NextBind ==
  \/ DoRegister("l", None, None)
  \/ DoRegister("n", None, None)
  \/ DoRegister("g", Some(Str("f")), None)
  \/ \E binding_key \in BindKeys, n \in 1..2 :
       DoBindParameterKey(binding_key, Lit(n))
  \/ \E statements \in BindStatements : DoParseConfig(statements)
  \/ DoClearConfig

\* d.x is bound to '@a/b/f()', '@f()' or '@a/f', and f.x is bound under the
\* scopes 'c', 'a/b' and 'a'.
ScopedRefBindings ==
  {<<KeyStr(<<"d", ".", "x">>), Ref(<<"a", "/", "b", "/", "f">>, TRUE)>>,
   <<KeyStr(<<"d", ".", "x">>), Ref(<<"f">>, TRUE)>>,
   <<KeyStr(<<"d", ".", "x">>), Ref(<<"a", "/", "f">>, FALSE)>>,
   <<KeyStr(<<"c", "/", "f", ".", "x">>), Lit(1)>>,
   <<KeyStr(<<"a", "/", "b", "/", "f", ".", "x">>), Lit(2)>>,
   <<KeyStr(<<"a", "/", "f", ".", "x">>), Lit(4)>>}

NextScopedRef ==
  \/ ~Invoking /\ DoRegister("d", None, None)
  \/ \E b \in ScopedRefBindings : ~Invoking /\ DoBindParameter(b[1], b[2])
  \/ ~Invoking /\ ConfigScopeEnter(MainThread, StrArg(<<"c">>))
  \/ ~Invoking /\ ConfigScopeExit(MainThread, "return")
  \/ InvokeReference(MainThread)
  \/ \E how \in {"return", "raise"} : ReferenceReturns(MainThread, how)

\* Calls of d under the scope 'c' that copy a reference to f, with or
\* without scopes of its own.
SpecScopedRef == Init /\ [][NextScopedRef]_vars

\* Bindings for configurables with an allowlist or a denylist, made by
\* bind_parameter and by parse_config while configurables are registered.
SpecBind == Init /\ [][NextBind]_vars

\* Calls of f with references to gin.singleton bound, and clear_config.
SpecSingleton == Init /\ [][NextSingleton]_vars

\* Two threads that call singleton_value, their statements interleaved.
SpecSingletonThreads == Init /\ [][NextSingletonThreads]_vars

\* Two threads that call configurables, operative_config_str and
\* clear_config, their statements interleaved.
SpecOperativeThreads == Init /\ [][NextOperativeThreads]_vars

\* Two threads that enter and leave unlock_config blocks on a locked config.
SpecUnlockThreads == Init /\ [][NextUnlockThreads]_vars

\* Two threads that call bind_parameter and finalize, their statements
\* interleaved.
SpecBindThreads == Init /\ [][NextBindThreads]_vars

\* Texts of several statements are parsed, some of which raise.
SpecParse == Init /\ [][NextParse]_vars

\* Hooks that return bindings, valid or not, are registered, and finalize
\* runs them on stores at which the hooks of gin raise or do not.
SpecFinalize == Init /\ [][NextFinalize]_vars

\* Parsing with skip_unknown, references to unknown configurables, finalize.
SpecUnknownRef == Init /\ [][NextUnknownRef]_vars

-----------------------------------------------------------------------------
(* Claims about the SelectorMap                                            *)

\* The stored selectors that end with the components of p, in order.
SuffixMatches(p) ==
  {s \in DOMAIN sm.map : IsSuffix(Split(p, "."), Split(s, "."))}

\* C10: in a SelectorMap built by insertions, matching_selectors(p) is [p]
\* when p is a stored selector, and otherwise exactly the stored selectors
\* whose trailing components are p's components, in order.
C10_MatchingSelectors ==
  \A p \in SelectorInputs \cup InvalidSelectorInputs :
    MatchingSelectors(sm, p) =
      IF p \in DOMAIN sm.map THEN {p} ELSE SuffixMatches(p)

\* A stored selector that is a proper suffix of another stored one matches
\* only itself, while a partial selector that is not stored matches two.
C10_Witness ==
  /\ \E p \in DOMAIN sm.map :
       /\ Cardinality(SuffixMatches(p)) > 1
       /\ MatchingSelectors(sm, p) = {p}
  /\ \E q \in SelectorInputs \ DOMAIN sm.map :
       Cardinality(MatchingSelectors(sm, q)) = 2

-----------------------------------------------------------------------------
(* Claims about the scope stack                                            *)

\* The scope a config_scope block makes active, given the scope that was
\* active when it was entered: 'a' and 'a/b' extend it, a list replaces it,
\* None and '' clear it.
BlockScope(arg, prev) ==
  IF arg = StrArg(<<"a">>) THEN prev \o << <<"a">> >>
  ELSE IF arg = StrArg(<<"a", "/", "b">>) THEN prev \o << <<"a">>, <<"b">> >>
  ELSE IF arg.kind = "list" THEN arg.list
  ELSE <<>>

\* The stack that a thread's own open blocks, outermost first, make.
RECURSIVE OwnStack(_)
OwnStack(frs) ==
  IF frs = <<>> THEN << <<>> >>
  ELSE LET below == OwnStack(SubSeq(frs, 1, Len(frs) - 1))
       IN  Append(below, BlockScope(frs[Len(frs)].arg, below[Len(below)]))

\* C8: the scope stack a thread sees is the one its own open config_scope
\* blocks make, whatever the other threads enter and leave; a thread inside
\* no block sees the empty scope.
C8_ThreadLocalScopes ==
  \A t \in Threads :
    /\ ActiveScopes(active_scopes, t) = OwnStack(frames[t])
    /\ frames[t] = <<>> => CurrentScope(active_scopes, t) = <<>>

\* The main thread is inside 'a' then ['b'] while the other thread, which
\* entered and left a block of its own, is inside none.
C8_Witness ==
  /\ Len(frames["t1"]) = 2
  /\ CurrentScope(active_scopes, "t1") = << <<"b">> >>
  /\ frames["t2"] = <<>>
  /\ active_scopes["t2"].has
  /\ left.thread = "t2" /\ left.how = "return"

\* C9: inside a block the active scope is the one the block's argument
\* gives, and a block that was left, by its body returning or raising or by
\* the ValueError of an invalid argument, left the thread's stack as it was
\* before the block was entered.
C9_StackDiscipline ==
  LET stack == ActiveScopes(active_scopes, MainThread)
      frs == frames[MainThread]
  IN  /\ left.how # "none" => left.after = left.before
      /\ Len(stack) = Len(frs) + 1
      /\ \A k \in 1..Len(frs) :
           /\ frs[k].before = SubSeq(stack, 1, k)
           /\ stack[k + 1] = BlockScope(frs[k].arg, stack[k])

\* Inside 'a', a nested block was left by an exception, and config_scope(None)
\* was entered after it: the active scope is empty.
C9_Witness ==
  /\ left.how = "raise" /\ Len(left.before) = 2
  /\ Len(frames[MainThread]) = 2
  /\ frames[MainThread][1].arg = StrArg(<<"a">>)
  /\ frames[MainThread][2].arg = NoneArg
  /\ CurrentScope(active_scopes, MainThread) = <<>>

\* An invalid argument was refused inside 'a/b'.
C9_WitnessInvalid ==
  /\ left.how = "ValueError"
  /\ CurrentScope(active_scopes, MainThread) = << <<"a">>, <<"b">> >>

-----------------------------------------------------------------------------
(* Claims about the lock flag                                              *)

\* The operations that bind a parameter or register a configurable.
MutatingOps == {"bind_parameter", "parse_config", "register"}

\* C5: while the config is locked and no unlock_config block is open, each
\* of bind_parameter, parse_config with a binding statement and the
\* registration of a configurable raises RuntimeError and leaves the binding
\* store and the registry as they were.
C5_LockedMutationRaises ==
  [][(/\ CONFIG_IS_LOCKED
      /\ unlock_frames = <<>>
      /\ last_op'.op \in MutatingOps)
     => (/\ last_op'.status = "RuntimeError"
         /\ CONFIG' = CONFIG
         /\ REGISTRY' = REGISTRY)]_vars

\* parse_config raised RuntimeError on a locked config that holds a binding
\* and has a configurable registered at run time.
C5_Witness ==
  /\ CONFIG_IS_LOCKED /\ unlock_frames = <<>>
  /\ last_op.op = "parse_config" /\ last_op.locked
  /\ last_op.status = "RuntimeError"
  /\ CONFIG # EmptyDict
  /\ <<"b", ".", "g">> \in DOMAIN REGISTRY.map

C7_UnlockRestoresFlag ==
  last_op.op = "unlock_exit" => CONFIG_IS_LOCKED = last_op.saved

-----------------------------------------------------------------------------
(* Parameter injection: claims C1 to C4                                    *)

\* The parameters of f.
Params == Range(Signature("f").args)

\* The values the caller of the call `op` gave for p, positionally or by
\* keyword.
SuppliedValues(op, p) ==
  {op.args[i] : i \in {j \in 1..Len(op.args) :
                         /\ j <= Len(Signature("f").args)
                         /\ Signature("f").args[j] = p}}
  \cup {op.kwargs[i][2] : i \in {j \in 1..Len(op.kwargs) :
                                   op.kwargs[j][1] = p}}

\* The caller gave p a value other than REQUIRED.
Supplies(op, p) == SuppliedValues(op, p) \ {REQUIRED} # {}

\* The i for which the prefix S[:i] of the scope path S binds p for f.
BindingPrefixes(S, p) ==
  {i \in 0..Len(S) :
     p \in DOMAIN ConfigGet(CONFIG, <<Join(SubSeq(S, 1, i), "/"), Sel_f>>)}

\* The value bound to p at the deepest prefix of S that binds p.
VisibleValue(S, p) ==
  ConfigGet(CONFIG,
    <<Join(SubSeq(S, 1, CHOOSE i \in BindingPrefixes(S, p) :
                          \A j \in BindingPrefixes(S, p) : j <= i), "/"),
      Sel_f>>)[p]

\* C1: in a call of f under the scope path S that invokes the target, each
\* parameter the caller does not supply is bound at some prefix of S, and
\* the target receives the value bound at the deepest prefix of S that binds
\* it; bindings under paths that are no prefix of S play no part.
C1_DeepestPrefixWins ==
  (last_op.op = "call" /\ last_op.status = "ok")
    => \A p \in Params :
         ~Supplies(last_op, p)
           => /\ BindingPrefixes(last_op.scope, p) # {}
              /\ last_op.received[p] = VisibleValue(last_op.scope, p)

\* x is 1 at the root and 2 under 'a', nothing is bound under 'a/b', and a
\* call under a/b that does not supply x received x = 2.
C1_Witness ==
  /\ last_op.op = "call" /\ last_op.status = "ok"
  /\ last_op.scope = <<Str("a"), Str("b")>>
  /\ ~Supplies(last_op, Str("x"))
  /\ ConfigGet(CONFIG, <<<<>>, Sel_f>>) = (Str("x") :> Lit(1))
  /\ ConfigGet(CONFIG, <<Str("a"), Sel_f>>) = (Str("x") :> Lit(2))
  /\ BindingPrefixes(last_op.scope, Str("x")) = {0, 1}
  /\ last_op.received[Str("x")] = Lit(2)

\* C2: when the caller passes a value other than REQUIRED for p, by position
\* or by keyword, and a visible scope binds p, the target receives the
\* caller's value and not the bound one.
C2_CallerValueWins ==
  (last_op.op = "call" /\ last_op.status = "ok")
    => \A p \in Params :
         (Supplies(last_op, p) /\ BindingPrefixes(last_op.scope, p) # {})
           => /\ last_op.received[p] \in SuppliedValues(last_op, p) \ {REQUIRED}
              /\ last_op.received[p] # VisibleValue(last_op.scope, p)

\* x and y are bound at the root, and f(9, y=9) received 9 for x, given by
\* position, and 9 for y, given by keyword.
C2_Witness ==
  /\ last_op.op = "call" /\ last_op.status = "ok"
  /\ last_op.args = <<Lit(9)>>
  /\ last_op.kwargs = << <<Str("y"), Lit(9)>> >>
  /\ BindingPrefixes(last_op.scope, Str("x")) # {}
  /\ BindingPrefixes(last_op.scope, Str("y")) # {}
  /\ last_op.received = (Str("x") :> Lit(9)) @@ (Str("y") :> Lit(9))

\* p is required in the call `op`: the caller passed REQUIRED for it, by
\* position or by keyword, or its default in the signature is REQUIRED and
\* the caller gave nothing for it.
RequiredParam(op, p) ==
  \/ REQUIRED \in SuppliedValues(op, p)
  \/ /\ p \in DOMAIN Signature("f").defaults
     /\ Signature("f").defaults[p] = REQUIRED
     /\ SuppliedValues(op, p) = {}

\* The required parameters of the call `op` that no visible scope binds.
Unsatisfied(op) ==
  {p \in Params : RequiredParam(op, p) /\ BindingPrefixes(op.scope, p) = {}}

\* The call `op` gives Python a value for each parameter of f that has no
\* default: the caller supplies it or a visible scope binds it.
ArgumentsComplete(op) ==
  \A p \in Params \ DOMAIN Signature("f").defaults :
    Supplies(op, p) \/ BindingPrefixes(op.scope, p) # {}

\* The call `op` raised RuntimeError exactly if a required parameter is
\* unsatisfied, and then the target was not invoked and the error lists the
\* unsatisfied parameters, each once, in the order of the signature.
RequiredRaises(op) ==
  /\ op.status = "RuntimeError" <=> Unsatisfied(op) # {}
  /\ op.status = "RuntimeError"
       => /\ ~op.called
          /\ op.missing = Keep(Signature("f").args, Unsatisfied(op))

\* The call `op` has required parameters, and a visible scope binds each.
RequiredAllBound(op) ==
  /\ \E p \in Params : RequiredParam(op, p)
  /\ Unsatisfied(op) = {}

\* The target of the call `op` received, for each required parameter, the
\* value bound to it.
RequiredReceived(op) ==
  /\ op.called
  /\ \A p \in Params :
       RequiredParam(op, p) => op.received[p] = VisibleValue(op.scope, p)

\* C3 as stated: a call raises RuntimeError, the target not invoked, exactly
\* if a required parameter is not bound in a visible scope, the error
\* listing those parameters once each in signature order; and once they are
\* all bound the call succeeds, the target receiving the bound values.
C3_RequiredThenSucceeds ==
  last_op.op = "call"
    => /\ RequiredRaises(last_op)
       /\ RequiredAllBound(last_op)
            => last_op.status = "ok" /\ RequiredReceived(last_op)

\* C3, amended: a call raises RuntimeError, the target not invoked, exactly
\* if a required parameter is not bound in a visible scope, the error
\* listing those parameters once each in signature order; once they are all
\* bound, the call succeeds, the target receiving the bound values, exactly
\* if every parameter without a default is supplied or bound, and raises
\* TypeError otherwise.
C3_RequiredThenSucceedsIfComplete ==
  last_op.op = "call"
    => /\ RequiredRaises(last_op)
       /\ RequiredAllBound(last_op)
            => /\ last_op.status = "ok" <=> ArgumentsComplete(last_op)
               /\ last_op.status = "TypeError" <=> ~ArgumentsComplete(last_op)
               /\ last_op.status = "ok" => RequiredReceived(last_op)

\* f(x=REQUIRED) with neither x nor y bound raised RuntimeError listing x
\* and then y, and did not invoke f.
C3_Witness ==
  /\ last_op.op = "call" /\ last_op.status = "RuntimeError"
  /\ last_op.kwargs = << <<Str("x"), REQUIRED>> >>
  /\ Unsatisfied(last_op) = {Str("x"), Str("y")}
  /\ last_op.missing = <<Str("x"), Str("y")>>
  /\ ~last_op.called

\* f(REQUIRED) with x and y bound, which raised RuntimeError while they were
\* not, invoked f with the bound values.
C3_WitnessBound ==
  /\ last_op.op = "call" /\ last_op.status = "ok"
  /\ last_op.args = <<REQUIRED>> /\ last_op.kwargs = <<>>
  /\ last_op.received = (Str("x") :> Lit(1)) @@ (Str("y") :> Lit(2))

\* The call `op` takes x from the configuration: the caller supplies no
\* value for x and a visible scope binds x.
Consumes(op) ==
  /\ op.op = "call"
  /\ ~Supplies(op, Str("x"))
  /\ BindingPrefixes(op.scope, Str("x")) # {}

\* C4: a call that consumes a binding of x to @a.T() runs T once, during the
\* call, and receives the object that this run produced, which no earlier
\* call received; a call that consumes a binding of x to @a.T runs nothing
\* and receives the wrapper of a.T, the same one each time.
C4_EvaluatedOncePerCall ==
  [][Consumes(last_op')
       => /\ (/\ VisibleValue(last_op'.scope, Str("x")).kind = "ref"
              /\ VisibleValue(last_op'.scope, Str("x")).evaluate)
               => /\ invocations' = invocations + 1
                  /\ last_op'.status = "ok"
                  /\ last_op'.received[Str("x")] = Obj(invocations')
          /\ (/\ VisibleValue(last_op'.scope, Str("x")).kind = "ref"
              /\ ~VisibleValue(last_op'.scope, Str("x")).evaluate)
               => /\ invocations' = invocations
                  /\ last_op'.status = "ok"
                  /\ last_op'.received[Str("x")] = Wrapper(Sel_T)]_vars

\* The second call that consumed f.x = @a.T() received the second object
\* that T produced.
C4_Witness ==
  /\ Consumes(last_op)
  /\ VisibleValue(last_op.scope, Str("x")) = Ref(Sel_T, TRUE)
  /\ invocations = 2
  /\ last_op.invoked = 1
  /\ last_op.received[Str("x")] = Obj(2)

\* A call that consumed f.x = @a.T received the wrapper, T never having run.
C4_WitnessNotEvaluated ==
  /\ Consumes(last_op)
  /\ VisibleValue(last_op.scope, Str("x")) = Ref(Sel_T, FALSE)
  /\ invocations = 0
  /\ last_op.received[Str("x")] = Wrapper(Sel_T)

-----------------------------------------------------------------------------
(* SelectorMap: claims C11 to C14                                          *)

\* The `default` that the callers of get_match pass.
Default == 0

\* The stored selectors that p matches: p itself when p is stored, and
\* otherwise the stored selectors that end with the components of p.
Matched(p) == IF p \in DOMAIN sm.map THEN {p} ELSE SuffixMatches(p)

\* get_match gave r for a partial selector that matches the stored selectors
\* `matched`: the default for none, the value for one, KeyError for several.
GetMatchAgrees(matched, r) ==
  /\ matched = {}
       => r = [status |-> "ok", value |-> Default, matches |-> {}]
  /\ Cardinality(matched) = 1
       => r = [status |-> "ok", matches |-> {},
               value |-> sm.map[CHOOSE c \in matched : TRUE]]
  /\ Cardinality(matched) > 1
       => /\ r.status = "KeyError"
          /\ r.matches = matched

\* C11: get_match(p, default) returns the value stored for the one selector
\* that p matches, returns default without raising when p matches none, and
\* raises KeyError listing all the matches when p matches several.
C11_GetMatch ==
  \A p \in SelectorInputs \cup InvalidSelectorInputs :
    GetMatchAgrees(Matched(p), GetMatchDefault(sm, p, Default))

\* a.b and b.b are stored with different values: 'b' raises KeyError listing
\* both, 'a.b' returns the value of a.b, and 'a' returns the default.
C11_Witness ==
  /\ DOMAIN sm.map = {<<"a", ".", "b">>, <<"b", ".", "b">>}
  /\ sm.map[<<"a", ".", "b">>] # sm.map[<<"b", ".", "b">>]
  /\ GetMatchDefault(sm, Str("b"), Default).status = "KeyError"
  /\ GetMatchDefault(sm, Str("b"), Default).matches = DOMAIN sm.map
  /\ GetMatchDefault(sm, <<"a", ".", "b">>, Default).value
       = sm.map[<<"a", ".", "b">>]
  /\ GetMatchDefault(sm, Str("a"), Default).value = Default

\* The suffix of the selector sel that has k components.
Suffix(sel, k) ==
  Join(SubSeq(Split(sel, "."), Len(Split(sel, ".")) - k + 1,
              Len(Split(sel, "."))), ".")

\* minimal_selector(sel) gave r: a suffix of sel by components that matches
\* sel only, and of which get_match returns the value of sel.
Resolves(sel, r) ==
  /\ r.status = "ok"
  /\ IsSuffix(Split(r.value, "."), Split(sel, "."))
  /\ MatchingSelectors(sm, r.value) = {sel}
  /\ GetMatchDefault(sm, r.value, Default) =
       [status |-> "ok", value |-> sm.map[sel], matches |-> {}]

\* C12: in a SelectorMap built by insertions, for every stored selector sel,
\* minimal_selector(sel) is a suffix of sel by components, it matches sel
\* and nothing else, and get_match of it returns the value stored for sel.
C12_MinimalResolves ==
  \A sel \in DOMAIN sm.map : Resolves(sel, MinimalSelector(sm, sel))

\* a.b and a.a.a are stored with different values: minimal_selector gives
\* 'b' and 'a', each shorter than its selector.
C12_Witness ==
  /\ DOMAIN sm.map = {<<"a", ".", "b">>, <<"a", ".", "a", ".", "a">>}
  /\ sm.map[<<"a", ".", "b">>] # sm.map[<<"a", ".", "a", ".", "a">>]
  /\ MinimalSelector(sm, <<"a", ".", "b">>).value = Str("b")
  /\ MinimalSelector(sm, <<"a", ".", "a", ".", "a">>).value = Str("a")

\* C13 as stated: minimal_selector(sel) is the shortest suffix of sel that
\* resolves to sel: no suffix of sel with fewer components matches sel alone.
C13_MinimalIsShortest ==
  \A sel \in DOMAIN sm.map :
    \A k \in 1..Len(Split(sel, ".")) :
      MatchingSelectors(sm, Suffix(sel, k)) = {sel}
        => Len(Split(MinimalSelector(sm, sel).value, ".")) <= k

RECURSIVE Build(_)
\* The SelectorMap that holds exactly the entries of the dict d, built by
\* insertions into an empty one.
Build(d) ==
  IF DOMAIN d = {} THEN NewSelectorMap
  ELSE SetItem(Build(DictDel(d, CHOOSE k \in DOMAIN d : TRUE)),
               CHOOSE k \in DOMAIN d : TRUE,
               d[CHOOSE k \in DOMAIN d : TRUE])

\* The partial selectors that are looked up: every suffix of a selector that
\* is or may be stored.
PartialInputs ==
  UNION {{Suffix(s, k) : k \in 1..Len(Split(s, "."))} :
           s \in PopInputs \cup DOMAIN sm.map}

\* C14: pop(sel) of a stored selector returns its value; afterwards sel is
\* not contained in the map and no partial selector matches it, the map has
\* one entry less, every other entry has its value, and minimal_selector
\* gives for each of them what it gives in a map into which only they were
\* inserted.  Registering a class renames a registered method by such a
\* removal: the method's value is then stored under the class's selector
\* followed by the method's name, and its old selector is no longer stored.
C14_PopRemoves ==
  [][/\ last_op'.op = "pop"
       => /\ last_op'.key \in DOMAIN sm.map
          /\ last_op'.value = sm.map[last_op'.key]
          /\ last_op'.key \notin DOMAIN sm'.map
          /\ \A p \in PartialInputs :
               last_op'.key \notin MatchingSelectors(sm', p)
          /\ SelectorMapLen(sm') = SelectorMapLen(sm) - 1
          /\ \A s \in DOMAIN sm.map \ {last_op'.key} :
               s \in DOMAIN sm'.map /\ sm'.map[s] = sm.map[s]
          /\ \A s \in DOMAIN sm'.map :
               MinimalSelector(sm', s) =
                 MinimalSelector(Build(DictDel(sm.map, last_op'.key)), s)
     /\ last_op'.op = "rename"
          => /\ SelectorMapLen(sm') <= SelectorMapLen(sm)
             /\ \E s \in DOMAIN sm'.map :
                  /\ sm'.map[s] = last_op'.value
                  /\ Suffix(s, 1) = Suffix(last_op'.key, 1)
                  /\ DOMAIN sm'.map \ {s} \subseteq DOMAIN sm.map \ {last_op'.key}]_vars

\* a.a.b was popped from a.a.b, b.a.b and a.a.a: a.a.a and b.a.b are left,
\* and minimal_selector('b.a.b') is 'b'.
C14_Witness ==
  /\ last_op.op = "pop" /\ last_op.key = <<"a", ".", "a", ".", "b">>
  /\ DOMAIN sm.map = {<<"b", ".", "a", ".", "b">>, <<"a", ".", "a", ".", "a">>}
  /\ sm.map[<<"b", ".", "a", ".", "b">>] = 2
  /\ last_op.value = 1
  /\ MinimalSelector(sm, <<"b", ".", "a", ".", "b">>).value = Str("b")

-----------------------------------------------------------------------------
(* Claims C15-C20                                                          *)

\* The selectors of the SelectorMap m whose trailing components are p's.
SuffixMatchesIn(m, p) ==
  {s \in DOMAIN m.map : IsSuffix(Split(p, "."), Split(s, "."))}

\* The statement st binds a parameter of a registered configurable to a
\* reference whose selector no registered configurable matches.
RefersToUnknown(st) ==
  /\ st.value.kind = "ref"
  /\ SuffixMatchesIn(REGISTRY, st.value.sel) = {}
  /\ SuffixMatchesIn(REGISTRY, st.selector) # {}

\* skip_unknown is True, or a list that names the selector.
SkipNames(skip_unknown, selector) ==
  \/ skip_unknown.kind = "bool" /\ skip_unknown.b
  \/ skip_unknown.kind = "list" /\ selector \in skip_unknown.names

\* The parse_config step parsed the one statement st, the store being
\* unlocked, and left it bound to an unknown reference.
StoresUnknown(st) ==
  /\ last_op'.status = "ok"
  /\ <<st.scope, Sel_f>> \in DOMAIN CONFIG'
  /\ st.arg_name \in DOMAIN CONFIG'[<<st.scope, Sel_f>>]
  /\ CONFIG'[<<st.scope, Sel_f>>][st.arg_name].kind = "unknown_ref"
  /\ CONFIG'[<<st.scope, Sel_f>>][st.arg_name].sel = st.value.sel
  /\ CONFIG'[<<st.scope, Sel_f>>][st.arg_name].evaluate = st.value.evaluate

\* The parameters of f that a call in scope S would materialize from an
\* unknown reference: those the caller did not give by position.
MaterializesUnknown(op) ==
  {p \in Params :
     /\ BindingPrefixes(op.scope, p) # {}
     /\ VisibleValue(op.scope, p).kind = "unknown_ref"
     /\ ~(\E i \in 1..Len(op.args) :
            Signature("f").args[i] = p /\ op.args[i] # REQUIRED)}

\* The store holds an unknown reference.
HoldsUnknown(cfg) ==
  \E k \in DOMAIN cfg : \E p \in DOMAIN cfg[k] : cfg[k][p].kind = "unknown_ref"

\* The error comes when a call materializes the binding and when finalize
\* validates, and from nothing else: a call raises ValueError exactly if it
\* materializes an unknown reference, an unlocked finalize raises ValueError
\* and leaves the flag clear exactly if the store holds one, and a successful
\* bind_parameter of a literal replaces what was bound under its key, an
\* unknown reference included, and nothing else.
UnknownRaisesLater ==
  /\ last_op'.op = "call"
       => (last_op'.status = "ValueError"
             <=> MaterializesUnknown(last_op') # {})
  /\ (last_op'.op = "finalize" /\ ~last_op'.locked)
       => /\ last_op'.status = "ValueError" <=> HoldsUnknown(CONFIG)
          /\ CONFIG_IS_LOCKED' <=> ~HoldsUnknown(CONFIG)
          /\ CONFIG' = CONFIG
  /\ (last_op'.op = "bind_parameter" /\ last_op'.status = "ok")
       => \E k \in DOMAIN CONFIG' : \E p \in DOMAIN CONFIG'[k] :
            /\ CONFIG'[k][p].kind = "lit"
            /\ CONFIG' = ConfigSet(CONFIG, k, p, CONFIG'[k][p])

\* C15 as stated: parsing a binding whose value refers to an unregistered
\* selector never fails at parse time and stores the binding; the error
\* comes only with a materializing call or with finalize, and rebinding
\* removes it.
C15_UnknownRefParses ==
  [][/\ (last_op'.op = "parse_config" /\ ~last_op'.locked
         /\ Len(last_op'.statements) = 1
         /\ RefersToUnknown(last_op'.statements[1]))
          => StoresUnknown(last_op'.statements[1])
     /\ UnknownRaisesLater]_vars

\* C15, amended: parsing with skip_unknown=True, or with a skip_unknown list
\* that names the reference's selector, a binding whose value refers to an
\* unregistered selector does not fail and stores the binding; the error
\* comes only with a materializing call or with finalize, and rebinding
\* removes it.
C15_UnknownRefParsesIfSkipped ==
  [][/\ (last_op'.op = "parse_config" /\ ~last_op'.locked
         /\ Len(last_op'.statements) = 1
         /\ RefersToUnknown(last_op'.statements[1])
         /\ SkipNames(last_op'.skip_unknown, last_op'.statements[1].value.sel))
          => StoresUnknown(last_op'.statements[1])
     /\ UnknownRaisesLater]_vars

\* f.x = @h() was parsed with skip_unknown, and the call f(y=9) raised
\* ValueError for x.
C15_Witness ==
  /\ last_op.op = "call" /\ last_op.status = "ValueError"
  /\ ~last_op.called
  /\ MaterializesUnknown(last_op) = {Str("x")}
  /\ HoldsUnknown(CONFIG)
  /\ ~CONFIG_IS_LOCKED

\* The singleton key that parameter p of the call `op` is read from, if the
\* call materializes a reference to gin.singleton for p: the scope written
\* in the reference, or else the scope of the call.
SingletonKey(op, p) ==
  IF Len(RSplit1(VisibleValue(op.scope, p).sel, "/")) = 2
  THEN RSplit1(VisibleValue(op.scope, p).sel, "/")[1]
  ELSE Join(op.scope, "/")

\* The parameters of f for which the call `op` reads a singleton.
ReadsSingleton(op) ==
  {p \in Params :
     /\ BindingPrefixes(op.scope, p) # {}
     /\ VisibleValue(op.scope, p).kind = "ref"
     /\ VisibleValue(op.scope, p).evaluate
     /\ VisibleValue(op.scope, p).sel
          \in {Ref_singleton, Ref_k_singleton}
     /\ ~(\E i \in 1..Len(op.args) :
            Signature("f").args[i] = p /\ op.args[i] # REQUIRED)}

\* What every step does with the table: a call constructs one object for
\* each key it adds and none for a key the table holds, the target receives
\* for each parameter read from a singleton, unless the caller gave it by
\* keyword, the object stored under its key, which for a key the table held
\* is the object it held; distinct keys hold distinct objects.
SingletonAccesses ==
  /\ last_op'.op = "call"
       => /\ last_op'.invoked
               = Cardinality(DOMAIN SINGLETONS' \ DOMAIN SINGLETONS)
          /\ last_op'.status = "ok"
               => \A p \in ReadsSingleton(last_op') :
                    /\ SingletonKey(last_op', p) \in DOMAIN SINGLETONS'
                    /\ ~Supplies(last_op', p)
                         => last_op'.received[p]
                              = SINGLETONS'[SingletonKey(last_op', p)]
  /\ \A k1, k2 \in DOMAIN SINGLETONS' :
       k1 # k2 => SINGLETONS'[k1] # SINGLETONS'[k2]

\* The step keeps every stored singleton: no eviction, no invalidation.
KeepsSingletons ==
  \A k \in DOMAIN SINGLETONS :
    k \in DOMAIN SINGLETONS' /\ SINGLETONS'[k] = SINGLETONS[k]

RepresentableBindings(cfg) ==
  {<<k, p, cfg[k][p]>> : <<k, p>> \in
     {kp \in UNION {{<<k, p>> : p \in DOMAIN cfg[k]} : k \in DOMAIN cfg} :
        IsLiterallyRepresentable(REGISTRY, cfg[kp[1]][kp[2]])}}

\* C17: rendering a store, clearing the config and parsing the text gives
\* the store restricted to its literally representable values, macros
\* included, and rendering that store gives the same text again.
C17_RenderParseRoundTrip ==
  last_op.op = "reparse"
    => /\ last_op.status = "ok"
       /\ RepresentableBindings(CONFIG) = RepresentableBindings(last_op.before)
       /\ \A k \in DOMAIN CONFIG : \A p \in DOMAIN CONFIG[k] :
            IsLiterallyRepresentable(REGISTRY, CONFIG[k][p])
       /\ ConfigStr(CONFIG, REGISTRY) = last_op.text

\* The round trip on a store of numbers, references and macros with
\* numbers: every binding is read back and the text is the same.
C17_RepresentableRoundTrip ==
  /\ last_op.op = "reparse"
  /\ last_op.status = "ok"
  /\ CONFIG = last_op.before
  /\ NumBindings(CONFIG) = 2
  /\ ConfigStr(CONFIG, REGISTRY) = last_op.text

\* The (scope, full selector, parameter) that a binding key of a hook names.
HookKey(binding_key) ==
  <<ParsedBindingKeyParse(REGISTRY, binding_key).scope,
    ParsedBindingKeyParse(REGISTRY, binding_key).complete_selector,
    ParsedBindingKeyParse(REGISTRY, binding_key).arg_name>>

\* Two of the registered hooks return a binding for the same key.
HooksConflict ==
  \E i, j \in 1..Len(FINALIZE_HOOKS) :
    /\ i < j
    /\ \E m \in 1..Len(FINALIZE_HOOKS[i]) : \E n \in 1..Len(FINALIZE_HOOKS[j]) :
         HookKey(FINALIZE_HOOKS[i][m][1]) = HookKey(FINALIZE_HOOKS[j][n][1])

\* C18: finalize raises ValueError whenever two hooks return bindings for
\* the same (scope, full selector, parameter), however each hook spells the
\* selector; the store is then left as it was and the config is not locked.
C18_ConflictingHooksRaise ==
  [][(last_op'.op = "finalize" /\ ~CONFIG_IS_LOCKED /\ HooksConflict)
       => /\ last_op'.status = "ValueError"
          /\ CONFIG' = CONFIG
          /\ ~CONFIG_IS_LOCKED']_vars

\* Two hooks that spell the same key in the same way: finalize raised.
C18_SameSpellingRaises ==
  /\ last_op.op = "finalize"
  /\ last_op.status = "ValueError"
  /\ HooksConflict
  /\ ~CONFIG_IS_LOCKED

\* The i for which the prefix S[:i] of the scope path S binds p for the
\* configurable registered under selector.
PrefixesBinding(selector, S, p) ==
  {i \in 0..Len(S) :
     p \in DOMAIN ConfigGet(CONFIG, <<Join(SubSeq(S, 1, i), "/"), selector>>)}

\* The value that the call `op` uses for p when the caller leaves it to the
\* configuration: the one bound at the deepest prefix of the scope that binds
\* p, or else the default of the signature.
UsedValue(op, p) ==
  IF PrefixesBinding(op.selector, op.scope, p) = {}
  THEN Signature(REGISTRY.map[op.selector].wrapped).defaults[p]
  ELSE ConfigGet(CONFIG,
         <<Join(SubSeq(op.scope, 1,
                  CHOOSE i \in PrefixesBinding(op.selector, op.scope, p) :
                    \A j \in PrefixesBinding(op.selector, op.scope, p) : j <= i),
                "/"),
           op.selector>>)[p]

\* p has a default that can be recorded: a literal.
RecordableDefault(selector, p) ==
  /\ p \in DOMAIN Signature(REGISTRY.map[selector].wrapped).defaults
  /\ Signature(REGISTRY.map[selector].wrapped).defaults[p].kind = "lit"

\* In the call `op` the caller supplies no value other than REQUIRED for p,
\* and p is bound by the config or has a recordable default.
LeftToConfig(op, p) ==
  /\ ~Supplies(op, p)
  /\ \/ PrefixesBinding(op.selector, op.scope, p) # {}
     \/ RecordableDefault(op.selector, p)

\* The key (scope, selector) under which the call `op` is recorded.
OperativeKey(op) == <<Join(op.scope, "/"), op.selector>>

\* C19: the operative config starts empty, and a call changes only the entry
\* for (scope of the call, full selector): a parameter that the caller leaves
\* to the config, being bound or having a recordable default, is recorded
\* there with the value used, replacing what an earlier call recorded; a
\* parameter that the caller supplies, or that is neither bound nor has a
\* recordable default, is neither added, removed nor changed.  So after any
\* sequence of calls the entry holds k exactly if one of the calls left k to
\* the config, with the value of the last such call.
C19_OperativeRecordsUsed ==
  [][/\ last_op'.op = "call"
          => /\ OperativeKey(last_op') \in DOMAIN OPERATIVE_CONFIG'
             /\ \A key \in DOMAIN OPERATIVE_CONFIG' \ {OperativeKey(last_op')} :
                  /\ key \in DOMAIN OPERATIVE_CONFIG
                  /\ OPERATIVE_CONFIG'[key] = OPERATIVE_CONFIG[key]
             /\ \A p \in Params :
                  IF LeftToConfig(last_op', p)
                  THEN /\ p \in DOMAIN OPERATIVE_CONFIG'[OperativeKey(last_op')]
                       /\ OPERATIVE_CONFIG'[OperativeKey(last_op')][p]
                            = UsedValue(last_op', p)
                  ELSE /\ p \in DOMAIN OPERATIVE_CONFIG'[OperativeKey(last_op')]
                            <=> p \in DOMAIN ConfigGet(OPERATIVE_CONFIG,
                                                      OperativeKey(last_op'))
                       /\ p \in DOMAIN OPERATIVE_CONFIG'[OperativeKey(last_op')]
                            => OPERATIVE_CONFIG'[OperativeKey(last_op')][p]
                                 = OPERATIVE_CONFIG[OperativeKey(last_op')][p]
     /\ last_op'.op \notin {"call", "clear_config"}
          => OPERATIVE_CONFIG' = OPERATIVE_CONFIG]_vars

\* d(9) was called at the root while d.x is bound to 2: the entry keeps
\* x = 1, recorded by an earlier call, and holds the default y = 3.
C19_Witness ==
  /\ last_op.op = "call" /\ last_op.status = "ok"
  /\ last_op.selector = Sel_d /\ last_op.scope = <<>>
  /\ last_op.args = <<Lit(9)>> /\ last_op.kwargs = <<>>
  /\ ConfigGet(CONFIG, <<<<>>, Sel_d>>) = (Str("x") :> Lit(2))
  /\ OPERATIVE_CONFIG[<<<<>>, Sel_d>>] = (Str("x") :> Lit(1)) @@ (Str("y") :> Lit(3))

\* d(9, y=9) was called under 'a' after a call that left y to the config:
\* the entry for 'a' holds y = 4 and no x.
C19_WitnessSupplied ==
  /\ last_op.op = "call" /\ last_op.status = "ok"
  /\ last_op.selector = Sel_d /\ last_op.scope = <<Str("a")>>
  /\ last_op.args = <<Lit(9)>> /\ last_op.kwargs = << <<Str("y"), Lit(9)>> >>
  /\ OPERATIVE_CONFIG[<<Str("a"), Sel_d>>] = (Str("y") :> Lit(4))

\* The binding key with the parts k names no parameter that may be bound:
\* its selector matches no configurable of the registry or several, or the
\* one it matches has no parameter k.arg_name, has an allowlist without it
\* or a denylist with it.
Rejected(reg, k) ==
  \/ Cardinality(MatchingSelectors(reg, k.selector)) # 1
  \/ \E c \in MatchingSelectors(reg, k.selector) :
       \/ k.arg_name \notin Range(Signature(reg.map[c].wrapped).args)
       \/ /\ reg.map[c].allowlist # {}
          /\ k.arg_name \notin reg.map[c].allowlist
       \/ k.arg_name \in reg.map[c].denylist

\* The statements of a text that come before its first rejected binding.
AcceptedPrefix(reg, statements) ==
  SubSeq(statements, 1,
         (CHOOSE i \in 1..Len(statements) :
            /\ Rejected(reg, KeyParts(StatementKey(statements[i])))
            /\ \A j \in 1..(i - 1) :
                 ~Rejected(reg, KeyParts(StatementKey(statements[j])))) - 1)

\* C20: bind_parameter raises for a key whose selector matches no registered
\* configurable or several, whose parameter is not on the signature, is not
\* in the allowlist or is in the denylist, and whenever it raises the store
\* is as before: no value and no empty entry is added.  A binding statement
\* of parse_config does the same: the text raises at its first such
\* statement and the store holds what the statements before it bound.
C20_RejectedBindingLeavesStore ==
  [][/\ (last_op'.op = "bind_parameter"
          /\ Rejected(REGISTRY, KeyParts(last_op'.key)))
         => last_op'.status \in {"ValueError", "KeyError"}
     /\ (last_op'.op = "bind_parameter" /\ last_op'.status # "ok")
         => CONFIG' = CONFIG
     /\ (last_op'.op = "parse_config"
          /\ \E i \in 1..Len(last_op'.statements) :
               Rejected(REGISTRY, KeyParts(StatementKey(last_op'.statements[i]))))
         => /\ last_op'.status \in {"ValueError", "KeyError"}
            /\ CONFIG' = ParseConfig(CONFIG, REGISTRY, FALSE,
                            AcceptedPrefix(REGISTRY, last_op'.statements)).config
            /\ DOMAIN CONFIG' \subseteq
                 DOMAIN CONFIG \cup
                   {<<st.scope, GetMatch(REGISTRY, st.selector).value.selector>> :
                      st \in Range(AcceptedPrefix(REGISTRY, last_op'.statements))}]_vars

\* bind_parameter('l.y', 2) raised ValueError, y not being in the allowlist
\* of l, and the store holds l.x = 1 as before.
C20_Witness ==
  /\ last_op.op = "bind_parameter"
  /\ last_op.key = KeyStr(<<"l", ".", "y">>)
  /\ last_op.status = "ValueError"
  /\ CONFIG = (<<<<>>, Sel_l>> :> (Str("x") :> Lit(1)))

\* parse_config('n.y = 1\nn.x = 2') raised ValueError at its second
\* statement, x being in the denylist of n: the store holds n.y = 1 only.
C20_WitnessStatement ==
  /\ last_op.op = "parse_config"
  /\ Len(last_op.statements) = 2
  /\ last_op.statements[2].selector = Str("n")
  /\ last_op.status = "ValueError"
  /\ CONFIG = (<<<<>>, Sel_n>> :> (Str("y") :> Lit(1)))

\* bind_parameter('f.x', 1) raised KeyError, both a.f and b.f being
\* registered, and the store is empty.
C20_WitnessAmbiguous ==
  /\ last_op.op = "bind_parameter"
  /\ last_op.key = KeyStr(<<"f", ".", "x">>)
  /\ last_op.status = "KeyError"
  /\ CONFIG = EmptyDict

-----------------------------------------------------------------------------
(* Claims C21-C30                                                          *)

\* C21: while the configurable of a reference with scopes is invoked, the
\* active scope is exactly the scopes of the reference, and its bindings are
\* those of that scope, whatever the scope of the call that consumes the
\* reference; the configurable of a reference without scopes runs under the
\* scope of the consuming call; and when the invocation returns or raises,
\* the scope of the consuming call is active again.
C21_ReferenceScope ==
  [][/\ last_op'.op = "invoke"
          => /\ last_op'.scope = CurrentScope(active_scopes, MainThread)
             /\ CurrentScope(active_scopes', MainThread) =
                  (IF RefScopes(last_op'.selector) # <<>>
                   THEN RefScopes(last_op'.selector) ELSE last_op'.scope)
             /\ \A p \in Params :
                  p \in DOMAIN last_op'.received
                    <=> \E i \in 0..Len(CurrentScope(active_scopes', MainThread)) :
                          p \in DOMAIN ConfigGet(CONFIG,
                            <<Join(SubSeq(CurrentScope(active_scopes', MainThread),
                                          1, i), "/"), Sel_f>>)
     /\ last_op'.op = "invoked"
          => /\ last_op.op = "invoke"
             /\ CurrentScope(active_scopes', MainThread) = last_op.scope]_vars

\* '@a/b/f()' is copied by a call of d under 'c' while f.x is bound under
\* 'c' only: f runs under ['a', 'b'] and is given no x.
C21_Witness ==
  /\ last_op.op = "invoke"
  /\ last_op.scope = <<Str("c")>>
  /\ last_op.selector = <<"a", "/", "b", "/", "f">>
  /\ CurrentScope(active_scopes, MainThread) = <<Str("a"), Str("b")>>
  /\ <<Str("c"), Sel_f>> \in DOMAIN CONFIG
  /\ last_op.received = EmptyDict

\* f, invoked for '@a/b/f()' by a call under 'c', has raised: 'c' is the
\* active scope again.
C21_WitnessRaised ==
  /\ last_op.op = "invoked" /\ last_op.status = "raise"
  /\ last_op.scope = <<Str("c")>>
  /\ last_op.selector = <<"a", "/", "b", "/", "f">>
  /\ CurrentScope(active_scopes, MainThread) = <<Str("c")>>

\* '@f()' is copied by a call of d under 'c': f runs under ['c'] and is
\* given the x bound under 'c'.
C21_WitnessUnscoped ==
  /\ last_op.op = "invoke"
  /\ last_op.scope = <<Str("c")>>
  /\ last_op.selector = <<"f">>
  /\ CurrentScope(active_scopes, MainThread) = <<Str("c")>>
  /\ last_op.received = (Str("x") :> Lit(1))

\* The visible binding of x for the call `op` is an evaluated reference.
BindsEvaluated(op) ==
  /\ op.op = "call"
  /\ BindingPrefixes(op.scope, Str("x")) # {}
  /\ VisibleValue(op.scope, Str("x")).kind = "ref"
  /\ VisibleValue(op.scope, Str("x")).evaluate

\* The caller of the call `op` gave p positionally a value other than
\* REQUIRED.
SuppliesPositionally(op, p) ==
  \E j \in 1..Len(op.args) :
    /\ j <= Len(Signature("f").args)
    /\ Signature("f").args[j] = p
    /\ op.args[j] # REQUIRED

\* C22 as stated: an evaluated reference bound to a parameter that the
\* caller supplies, positionally or by keyword, with a value other than
\* REQUIRED is not invoked during the call.
C22_SuppliedNotInvoked ==
  [][(BindsEvaluated(last_op') /\ Supplies(last_op', Str("x")))
       => invocations' = invocations]_vars

\* C22 amended: an evaluated reference bound to a parameter that the caller
\* supplies positionally with a value other than REQUIRED is popped before
\* the copy and not invoked; one bound to a parameter that the caller
\* supplies by keyword only is copied, so its configurable runs once, and
\* the target still receives the caller's value.
C22_PositionalNotInvoked ==
  [][BindsEvaluated(last_op')
       => /\ SuppliesPositionally(last_op', Str("x"))
               => invocations' = invocations
          /\ (~SuppliesPositionally(last_op', Str("x"))
               /\ Supplies(last_op', Str("x")))
               => /\ invocations' = invocations + 1
                  /\ last_op'.status = "ok"
                  /\ last_op'.received[Str("x")] \in SuppliedValues(last_op', Str("x"))]_vars

\* f(x=9, y=9) was called while f.x is bound to @a.T(): T ran, and f
\* received 9.
C22_Witness ==
  /\ BindsEvaluated(last_op)
  /\ last_op.args = <<>>
  /\ Supplies(last_op, Str("x"))
  /\ last_op.invoked = 1
  /\ invocations = 1
  /\ last_op.received[Str("x")] = Lit(9)

\* f(9, y=9) was called while f.x is bound to @a.T(): T did not run.
C22_WitnessPositional ==
  /\ BindsEvaluated(last_op)
  /\ SuppliesPositionally(last_op, Str("x"))
  /\ last_op.status = "ok"
  /\ last_op.invoked = 0
  /\ invocations = 0

\* The keys for which a constructor has run: those stored, and those a thread
\* is about to store.
ConstructedKeys ==
  DOMAIN SINGLETONS \cup {pc[t].key : t \in {u \in Threads : pc[u].at = "store"}}

\* C23: when threads perform the first access to the same singleton key
\* concurrently, the constructor runs once in total for that key and every
\* thread receives the same object, in every interleaving.
C23_ConstructedOnce ==
  /\ invocations = Cardinality(ConstructedKeys)
  /\ \A t, u \in Threads :
       /\ pc[t].at = "returned"
       /\ pc[u].at = "returned"
       /\ pc[t].key = pc[u].key
       => pc[t].result = pc[u].result

\* Every entry and every parameter name of the snapshot is still in it after
\* the step.
OperativeKept ==
  \A k \in DOMAIN OPERATIVE_CONFIG :
    /\ k \in DOMAIN OPERATIVE_CONFIG'
    /\ DOMAIN OPERATIVE_CONFIG[k] \subseteq DOMAIN OPERATIVE_CONFIG'[k]

\* The snapshot after the step has the entry of thread t's call with every
\* value that the call recorded.
OperativeMerged(t) ==
  /\ pc[t].key \in DOMAIN OPERATIVE_CONFIG'
  /\ \A p \in DOMAIN pc[t].obj :
       /\ p \in DOMAIN OPERATIVE_CONFIG'[pc[t].key]
       /\ OPERATIVE_CONFIG'[pc[t].key][p] = pc[t].obj[p]

\* Some thread is between the setdefault and the update of its call.
Merging == \E t \in Threads : pc[t].at = "wrapper_update"

\* C24: the merge-then-update of the operative config is atomic with respect
\* to other calls, to clear_config and to operative_config_str: no step but
\* the clear of clear_config removes an entry or a parameter, the update of
\* every call lands in the snapshot with all the values the call recorded,
\* and neither the read of operative_config_str nor the clear happens while
\* an entry is partially merged.
C24_OperativeAtomic ==
  [][/\ last_op'.op # "clear_operative" => OperativeKept
     /\ \A t \in Threads :
          pc[t].at = "wrapper_update" /\ pc'[t].at = "wrapper_release"
            => OperativeMerged(t)
     /\ last_op'.op \in {"clear_operative", "read"} => ~Merging]_vars

\* The calls d(9) and d(y=9) have both returned: the entry has the default
\* of y that the first recorded and the binding of x that the second
\* recorded.
C24_Witness ==
  /\ \A t \in Threads : pc[t].at = "idle"
  /\ last_op.op = "release"
  /\ << <<>>, Sel_d>> \in DOMAIN OPERATIVE_CONFIG
  /\ OPERATIVE_CONFIG[<< <<>>, Sel_d>>] = (Str("x") :> Lit(1)) @@ (Str("y") :> Lit(3))

\* A thread waits for the lock while another is between setdefault and
\* update.
C24_WitnessWaiting ==
  /\ pc["t1"].at = "wrapper_update"
  /\ pc["t2"].at \in {"clear_acquire", "str_acquire", "wrapper_acquire"}

\* The paths of the tree that end in a terminal that stores `selector`.
TerminalsOf(selector) ==
  {path \in DOMAIN sm.tree.term : sm.tree.term[path] = selector}

\* C25: after any sequence of insertions, insertions of a stored selector
\* with a new value and clears, the terminals of the tree and the keys of the
\* map correspond one to one: the path of every terminal, reversed, spells
\* the selector stored in the terminal, which is a key of the map, and every
\* key of the map has exactly one terminal.
C25_TerminalsAreKeys ==
  /\ \A path \in DOMAIN sm.tree.term :
       /\ path \in sm.tree.nodes
       /\ Join(Reverse(path), ".") = sm.tree.term[path]
       /\ sm.tree.term[path] \in DOMAIN sm.map
  /\ \A selector \in DOMAIN sm.map : Cardinality(TerminalsOf(selector)) = 1

\* Two selectors are stored, one a suffix of the other, and the last
\* insertion gave the shorter one, which was stored with 1, the value 2.
C25_Witness ==
  /\ last_op.op = "setitem"
  /\ last_op.key = <<"b">>
  /\ <<"b">> \in DOMAIN last_op.before
  /\ last_op.before[<<"b">>] = 1
  /\ DOMAIN sm.map = {<<"a", ".", "b">>, <<"b">>}
  /\ sm.map[<<"b">>] = 2

\* The map was cleared.
C25_WitnessCleared ==
  /\ last_op.op = "clear"
  /\ sm = NewSelectorMap

\* C26: starting from a locked config, once all the unlock_config blocks that
\* two or more threads entered have been left normally, in whatever order
\* the threads ran, the config is locked again.
C26_LockedAfterUnlocks ==
  NoneUnlocking /\ last_op.op = "unlock_exit" => CONFIG_IS_LOCKED

\* C27: when bind_parameter on one thread runs concurrently with finalize on
\* another, in every interleaving the bind raises RuntimeError and writes
\* nothing, or its write to the store happens before the lock flag is set:
\* no binding is written to the store while the flag is set.
C27_NoWriteOnceLocked ==
  [][/\ last_op'.op = "bind_write" => ~CONFIG_IS_LOCKED
     /\ last_op'.op = "bind_test" /\ last_op'.status = "RuntimeError"
          => CONFIG' = CONFIG]_vars

\* The statement raises when parse_config processes it: the config is locked,
\* its value does not parse, or its key is rejected.
StatementRaises(reg, locked, st) ==
  \/ locked
  \/ ParseValue(reg, SkipBool(FALSE), st.value).status # "ok"
  \/ Rejected(reg, KeyParts(StatementKey(st)))

\* The entry of the store and the parameter name that a statement which does
\* not raise binds.
StatementSlot(reg, st) ==
  IF st.arg_name = <<>>
  THEN << <<IF st.scope # <<>> THEN st.scope \o <<"/">> \o st.selector
            ELSE st.selector, Sel_macro>>,
          <<"v", "a", "l", "u", "e">> >>
  ELSE << <<st.scope, GetMatch(reg, st.selector).value.selector>>,
          st.arg_name>>

\* The position of the first statement that raises, or one past the last.
FirstRaising(reg, locked, statements) ==
  CHOOSE k \in 1..(Len(statements) + 1) :
    /\ k <= Len(statements) => StatementRaises(reg, locked, statements[k])
    /\ \A j \in 1..(k - 1) : ~StatementRaises(reg, locked, statements[j])

\* The (entry, parameter) pairs that a store binds.
Slots(cfg) == UNION {{<<e, p>> : p \in DOMAIN cfg[e]} : e \in DOMAIN cfg}

\* The store `after` holds, for the pair slot, what the statements before the
\* k-th make of the store `before`: the value of the last of them that binds
\* the pair, and what was there before if none does.
AppliedBefore(reg, statements, k, before, after, slot) ==
  IF \E j \in 1..(k - 1) : StatementSlot(reg, statements[j]) = slot
  THEN /\ slot \in Slots(after)
       /\ \E j \in 1..(k - 1) :
            /\ StatementSlot(reg, statements[j]) = slot
            /\ \A i \in (j + 1)..(k - 1) :
                 StatementSlot(reg, statements[i]) # slot
            /\ after[slot[1]][slot[2]] = statements[j].value
  ELSE IF slot \in Slots(before)
  THEN slot \in Slots(after)
       /\ after[slot[1]][slot[2]] = before[slot[1]][slot[2]]
  ELSE slot \notin Slots(after)

\* C28: parse_config applies the statements one at a time in source order
\* and does not roll back: it raises exactly when some statement raises, and
\* if the first to raise is the k-th, the store holds every binding of the
\* statements 1..k-1, a later binding of a key having overwritten an earlier
\* one, and nothing of the k-th statement or of those after it.
C28_NoRollback ==
  [][last_op'.op = "parse_config"
       => /\ (last_op'.status # "ok")
               = (FirstRaising(REGISTRY, CONFIG_IS_LOCKED, last_op'.statements)
                    <= Len(last_op'.statements))
          /\ \A slot \in Slots(CONFIG) \cup Slots(CONFIG')
                \cup {StatementSlot(REGISTRY, last_op'.statements[j]) :
                        j \in {i \in 1..Len(last_op'.statements) :
                                 ~StatementRaises(REGISTRY, FALSE,
                                                  last_op'.statements[i])}} :
               AppliedBefore(REGISTRY, last_op'.statements,
                 FirstRaising(REGISTRY, CONFIG_IS_LOCKED, last_op'.statements),
                 CONFIG, CONFIG', slot)
          /\ DOMAIN CONFIG' = {slot[1] : slot \in Slots(CONFIG')}]_vars

\* parse_config('f.x = 2\nh.x = 1') raised at its second statement, h being
\* unknown, and the store holds f.x = 2.
C28_Witness ==
  /\ last_op.op = "parse_config"
  /\ last_op.status # "ok"
  /\ last_op.statements = <<Statement(<<>>, Str("f"), Str("x"), Lit(2)),
                            Statement(<<>>, Str("h"), Str("x"), Lit(1))>>
  /\ <<<<>>, Sel_f>> \in DOMAIN CONFIG
  /\ Str("x") \in DOMAIN CONFIG[<<<<>>, Sel_f>>]
  /\ CONFIG[<<<<>>, Sel_f>>][Str("x")] = Lit(2)

\* parse_config raised at the first of two statements: the second, which is
\* valid, was not applied and the store is empty.
C28_WitnessFirst ==
  /\ last_op.op = "parse_config"
  /\ last_op.status # "ok"
  /\ Len(last_op.statements) = 2
  /\ StatementRaises(REGISTRY, FALSE, last_op.statements[1])
  /\ ~StatementRaises(REGISTRY, FALSE, last_op.statements[2])
  /\ CONFIG = EmptyDict

RECURSIVE HookItems(_)
\* The bindings that the hooks return, in the order of the hooks.
HookItems(hooks) ==
  IF hooks = <<>> THEN <<>> ELSE Head(hooks) \o HookItems(Tail(hooks))

\* The entry of the store and the parameter name that a binding key names.
KeySlot(reg, binding_key) ==
  << <<ParsedBindingKeyParse(reg, binding_key).scope,
       ParsedBindingKeyParse(reg, binding_key).complete_selector>>,
     ParsedBindingKeyParse(reg, binding_key).arg_name>>

\* finalize has a reason to raise: the config is locked, a hook of gin
\* raises, a hook returns a key that does not parse, or two bindings of the
\* hooks have the same key.
MustRaise(cfg, reg, locked, items) ==
  \/ locked
  \/ BuiltinHooks(cfg, reg) # "ok"
  \/ \E i \in 1..Len(items) :
       ParsedBindingKeyParse(reg, items[i][1]).status # "ok"
  \/ \E i, j \in 1..Len(items) : i # j /\ items[i][1] = items[j][1]

\* The store holds what the bindings `items` make of it, bound in order.
AllApplied(cfg, reg, items) ==
  \A i \in 1..Len(items) :
    /\ KeySlot(reg, items[i][1]) \in Slots(cfg)
    /\ \E j \in i..Len(items) :
         /\ KeySlot(reg, items[j][1]) = KeySlot(reg, items[i][1])
         /\ \A k \in (j + 1)..Len(items) :
              KeySlot(reg, items[k][1]) # KeySlot(reg, items[i][1])
         /\ cfg[KeySlot(reg, items[i][1])[1]][KeySlot(reg, items[i][1])[2]]
              = items[j][2]

C29_WitnessInvalidKey ==
  /\ last_op.op = "finalize"
  /\ last_op.status # "ok"
  /\ Len(FINALIZE_HOOKS) = 2
  /\ Len(FINALIZE_HOOKS[1]) = 2
  /\ FINALIZE_HOOKS[2][1][1] = KeyStr(<<"h", ".", "x">>)
  /\ CONFIG = EmptyDict
  /\ ~CONFIG_IS_LOCKED

\* finalize raised at validate_macros_hook with a hook of the program
\* registered: the store holds the reference only.
C29_WitnessHookRaises ==
  /\ last_op.op = "finalize"
  /\ last_op.status # "ok"
  /\ ~last_op.locked
  /\ FINALIZE_HOOKS # <<>>
  /\ \A i \in 1..Len(FINALIZE_HOOKS) :
       FINALIZE_HOOKS[i][1][1] = KeyStr(<<"f", ".", "y">>)
  /\ CONFIG = (<<<<>>, Sel_f>> :>
                (Str("x") :> Ref(<<"m", "/">> \o Sel_macro, FALSE)))

\* finalize raised on a locked config, and the config is still locked.
C29_WitnessLocked ==
  /\ last_op.op = "finalize"
  /\ last_op.status = "RuntimeError"
  /\ CONFIG_IS_LOCKED

\* finalize returned: the two bindings of the hook are in the store and the
\* config is locked.
C29_WitnessReturns ==
  /\ last_op.op = "finalize"
  /\ last_op.status = "ok"
  /\ CONFIG_IS_LOCKED
  /\ <<Str("a"), Sel_f>> \in DOMAIN CONFIG
  /\ CONFIG[<<Str("a"), Sel_f>>] = (Str("x") :> Lit(9))
  /\ CONFIG[<<<<>>, Sel_f>>][Str("y")] = Lit(8)

\* The store binds a value to the macro `name`.
MacroBound(cfg, name) ==
  /\ <<name, Sel_macro>> \in DOMAIN cfg
  /\ <<"v", "a", "l", "u", "e">> \in DOMAIN cfg[<<name, Sel_macro>>]

\* The first i slash-separated components of a name, joined again: the name
\* itself for all of them, '' for none.
NamePrefix(name, i) == Join(SubSeq(Split(name, "/"), 1, i), "/")

\* How many components the prefixes of the name that are bound have.
BoundPrefixes(cfg, name) ==
  {i \in 0..Len(Split(name, "/")) : MacroBound(cfg, NamePrefix(name, i))}

\* C30 as stated: evaluating %name yields the value bound to the macro named
\* exactly so, never that of a macro whose name is a proper slash-prefix,
\* and fails when the macro of that name is unbound.
C30_MacroExact ==
  [][last_op'.op = "macro"
       => IF MacroBound(CONFIG, last_op'.selector)
          THEN /\ last_op'.status = "ok"
               /\ last_op'.value
                    = CONFIG[<<last_op'.selector, Sel_macro>>][<<"v", "a", "l", "u", "e">>]
          ELSE last_op'.status # "ok"]_vars

\* C30: evaluating %name yields the value bound to the macro named exactly
\* so when there is one; otherwise the value bound to the longest slash-prefix
\* of the name that is bound as a macro, the empty prefix standing for
\* gin.macro.value bound without a scope; it fails only when the name and
\* all its prefixes are unbound.
C30_MacroInherits ==
  [][last_op'.op = "macro"
       => IF BoundPrefixes(CONFIG, last_op'.selector) # {}
          THEN /\ last_op'.status = "ok"
               /\ \E i \in BoundPrefixes(CONFIG, last_op'.selector) :
                    /\ \A j \in BoundPrefixes(CONFIG, last_op'.selector) :
                         j <= i
                    /\ last_op'.value
                         = CONFIG[<<NamePrefix(last_op'.selector, i), Sel_macro>>]
                                 [<<"v", "a", "l", "u", "e">>]
          ELSE last_op'.status # "ok"]_vars

\* %a/b was evaluated with a = 4 bound and a/b unbound, and gave 4.
C30_Witness ==
  /\ last_op.op = "macro"
  /\ last_op.selector = <<"a", "/", "b">>
  /\ last_op.status = "ok"
  /\ last_op.value = Lit(4)
  /\ MacroBound(CONFIG, Str("a"))
  /\ ~MacroBound(CONFIG, <<"a", "/", "b">>)

\* %a/b was evaluated with a = 4 and a/b = 5 bound, and gave 5.
C30_WitnessExact ==
  /\ last_op.op = "macro"
  /\ last_op.selector = <<"a", "/", "b">>
  /\ last_op.value = Lit(5)
  /\ MacroBound(CONFIG, Str("a"))
  /\ MacroBound(CONFIG, <<"a", "/", "b">>)

\* %a/b was evaluated with b = 6 bound only, and raised.
C30_WitnessUnbound ==
  /\ last_op.op = "macro"
  /\ last_op.selector = <<"a", "/", "b">>
  /\ last_op.status = "TypeError"
  /\ MacroBound(CONFIG, Str("b"))

====
